---- MODULE Spec2Model ----
(***************************************************************************)
(* TV series drop-off analysis: the season KPI / shark-jump / durability   *)
(* pipeline (pipeline/02_run_sql.py), its validation (qa/validate.py) and  *)
(* the QA workbook (pipeline/03_generate_qa_workbook.py).                   *)
(*                                                                         *)
(* Ratings have one decimal and are held in tenths (8.5 is 85); every      *)
(* derived average is kept as an exact fraction [num, den] in lowest terms *)
(* and compared by cross-multiplication, so the model has no rounding: it  *)
(* states what the arithmetic means, not what IEEE doubles do to it.       *)
(*                                                                         *)
(* The SQL files executed by 02_run_sql.py (sql/01_schema.sql ..           *)
(* sql/04_durability.sql) are not among the sources; the operators that    *)
(* stand for them follow sections 3 and 4 of the specification.            *)
(***************************************************************************)
EXTENDS Integers, Sequences, FiniteSets, TLC

\* ------------------------------------------------------------------------
\* Bounds of the model
\* ------------------------------------------------------------------------

\* season numbers of the input lie in 1..MaxSeason
MaxSeason == 4

\* most episodes one season of the input has
MaxEpisodes == 2

\* ------------------------------------------------------------------------
\* Program constants
\* ------------------------------------------------------------------------

\* config.SHOW_IDS, in dictionary order
ShowOrder == <<"tt0096697", "tt0206512", "tt0182576", "tt1520211">>

SHOW_IDS == {ShowOrder[i] : i \in 1..Len(ShowOrder)}

\* the show whose seasons the inputs vary
MainShow == ShowOrder[1]

\* a missing value (SQL NULL, pandas NaN, Python None)
NULL == <<>>

\* a present nullable value
Some(x) == <<x>>

\* pd.isna / pd.notna
IsNa(x) == x = NULL

\* int(x) of a present value
IntOf(x) == x[1]

\* pd.read_csv of a file that exists
ReadCsv(file) == file[1]

\* ------------------------------------------------------------------------
\* Exact fractions
\* ------------------------------------------------------------------------

\* greatest common divisor of two naturals
RECURSIVE Gcd(_, _)
Gcd(a, b) == IF b = 0 THEN a ELSE Gcd(b, a % b)

\* the fraction n / d in lowest terms
Rat(n, d) ==
    IF Gcd(n, d) = 0 THEN [num |-> n, den |-> d]
    ELSE [num |-> n \div Gcd(n, d), den |-> d \div Gcd(n, d)]

\* a < b for fractions with positive denominators
RatLess(a, b) == a.num * b.den < b.num * a.den

\* a > b
RatGreater(a, b) == RatLess(b, a)

\* a = b as numbers
RatEq(a, b) == a.num * b.den = b.num * a.den

RatAdd(a, b) == Rat(a.num * b.den + b.num * a.den, a.den * b.den)

\* a / k for a positive integer k
RatDiv(a, k) == Rat(a.num, a.den * k)

\* sum of the fractions q[lo..hi]
RECURSIVE RatSum(_, _, _)
RatSum(q, lo, hi) ==
    IF lo > hi THEN Rat(0, 1)
    ELSE RatAdd(q[lo], RatSum(q, lo + 1, hi))

\* ------------------------------------------------------------------------
\* Episode tables (episodes_filtered.csv)
\* ------------------------------------------------------------------------

\* ratings are stored in tenths: np.round(ratings, 1)
RatingScale == 10

\* <<rating, votes>> of an episode that carries its season
FirstEpisodes == {<<20, 1>>, <<50, 1>>, <<80, 1>>, <<80, 3>>}

\* <<rating, votes>> of a further episode of a season
MoreEpisodes == {<<20, 0>>, <<50, 3>>, <<80, 1>>}

\* f"tt999{ep_counter:04d}": a synthetic id; the model numbers an episode by
\* its show, season and position instead of a running counter
SyntheticId(show, season, i) == <<"tt999", show, season, i>>

\* the rows of one season: eps is a sequence of <<rating, votes>>
SeasonRows(show, season, eps) ==
    [i \in 1..Len(eps) |->
        [episode_tconst |-> SyntheticId(show, season, i),
         show_tconst |-> show, season_num |-> season, episode_num |-> i,
         avg_rating |-> eps[i][1], num_votes |-> eps[i][2]]]

\* the rows of a show: f maps each season number from s up to a sequence of
\* <<rating, votes>>, empty for a season the show does not have
RECURSIVE ShowRows(_, _, _, _)
ShowRows(show, f, s, last) ==
    IF s > last THEN <<>>
    ELSE SeasonRows(show, s, f[s]) \o ShowRows(show, f, s + 1, last)

\* one episode of rating 5.0 with 1 vote in season 1 of each show of present
RECURSIVE OtherRows(_, _)
OtherRows(present, i) ==
    IF i > Len(ShowOrder) THEN <<>>
    ELSE (IF ShowOrder[i] \in present
          THEN SeasonRows(ShowOrder[i], 1, <<(<<50, 1>>)>>)
          ELSE <<>>) \o OtherRows(present, i + 1)

\* what a season of the wide inputs holds: nothing or one episode
WideSeason == {<<>>} \cup {<<e>> : e \in FirstEpisodes}

\* the other shows that have an episode in the wide inputs: all but the last
OtherPresent == {SHOW_IDS \ {MainShow, ShowOrder[Len(ShowOrder)]}}

\* many seasons of one episode each
WideInputs ==
    {ShowRows(MainShow, f, 1, MaxSeason) \o OtherRows(p, 2) :
        f \in [1..MaxSeason -> WideSeason], p \in OtherPresent}

\* sequences of 1..n episodes: the first carries votes, the others may have none
RECURSIVE EpisodeLists(_)
EpisodeLists(n) ==
    IF n = 1 THEN {<<e>> : e \in FirstEpisodes}
    ELSE EpisodeLists(n - 1) \cup
         {Append(l, e) :
             l \in {m \in EpisodeLists(n - 1) : Len(m) = n - 1},
             e \in MoreEpisodes}

\* three seasons, the first of several episodes
DeepInputs ==
    {ShowRows(MainShow, <<a, b, c>>, 1, 3) \o OtherRows(SHOW_IDS, 2) :
        a \in EpisodeLists(MaxEpisodes), b \in WideSeason, c \in WideSeason}

\* generate_synthetic.SHOW_SEASONS: <<n_episodes, target_rating, base_votes>>
\* of each season, the rating in tenths
SHOW_SEASONS ==
    [show \in SHOW_IDS |->
        CASE show = "tt0096697" ->
                <<(<<8, 85, 30000>>), <<8, 83, 28000>>, <<7, 80, 25000>>,
                  <<7, 77, 22000>>, <<6, 73, 18000>>, <<6, 70, 15000>>,
                  <<5, 67, 10000>>, <<5, 64, 8000>> >>
          [] show = "tt0206512" ->
                <<(<<8, 85, 20000>>), <<7, 87, 22000>>, <<7, 88, 25000>>,
                  <<6, 65, 12000>>, <<6, 62, 10000>>, <<5, 60, 8000>> >>
          [] show = "tt0182576" ->
                <<(<<7, 82, 25000>>), <<7, 85, 27000>>, <<6, 78, 15000>>,
                  <<6, 92, 30000>>, <<6, 83, 22000>>, <<5, 80, 18000>>,
                  <<5, 78, 15000>> >>
          [] OTHER ->
                <<(<<8, 88, 35000>>), <<8, 85, 32000>>, <<7, 82, 28000>>,
                  <<7, 75, 20000>>, <<6, 65, 12000>>, <<6, 60, 8000>> >>]

\* generate_episodes for one show from season s on, every episode at the
\* target rating and the base votes of its season (the noise terms at zero)
RECURSIVE FixtureShowRows(_, _)
FixtureShowRows(show, s) ==
    IF s > Len(SHOW_SEASONS[show]) THEN <<>>
    ELSE LET season == SHOW_SEASONS[show][s]
         IN  SeasonRows(show, s, [i \in 1..season[1] |-> <<season[2], season[3]>>])
                 \o FixtureShowRows(show, s + 1)

\* generate_episodes: the shows in SHOW_SEASONS order, from show i on
RECURSIVE FixtureRows(_)
FixtureRows(i) ==
    IF i > Len(ShowOrder) THEN <<>>
    ELSE FixtureShowRows(ShowOrder[i], 1) \o FixtureRows(i + 1)

\* the sample fixture at its design values
FixtureEpisodes == FixtureRows(1)

EpisodeInputs == WideInputs \cup DeepInputs \cup {FixtureEpisodes}

\* ------------------------------------------------------------------------
\* Season aggregator and trend calculator (sql/02_season_kpis.sql)
\* ------------------------------------------------------------------------

\* length of the trailing window of rolling_3_season_avg
RollingWindow == 3

\* the rows of tbl whose show_tconst is show, in table order
ShowSlice(tbl, show) ==
    LET OfShow(r) == r.show_tconst = show
    IN  SelectSeq(tbl, OfShow)

\* the rows of one (show, season) group
SeasonSlice(tbl, show, season) ==
    LET InGroup(r) == r.show_tconst = show /\ r.season_num = season
    IN  SelectSeq(tbl, InGroup)

\* the season numbers a table has for a show
SeasonNums(tbl, show) ==
    {tbl[i].season_num : i \in {j \in 1..Len(tbl) : tbl[j].show_tconst = show}}

\* a finite set of integers as an ascending sequence
RECURSIVE Ascending(_)
Ascending(S) ==
    IF S = {} THEN <<>>
    ELSE LET m == CHOOSE x \in S : \A y \in S : x <= y
         IN  <<m>> \o Ascending(S \ {m})

\* SUM(avg_rating * num_votes)
RECURSIVE SumRatingVotes(_)
SumRatingVotes(rows) ==
    IF rows = <<>> THEN 0
    ELSE Head(rows).avg_rating * Head(rows).num_votes + SumRatingVotes(Tail(rows))

\* SUM(num_votes)
RECURSIVE SumVotes(_)
SumVotes(rows) ==
    IF rows = <<>> THEN 0
    ELSE Head(rows).num_votes + SumVotes(Tail(rows))

\* the rating of the first episode of a group, in table order
FirstRowRating(rows) ==
    IF rows = <<>> THEN Rat(0, 0) ELSE Rat(Head(rows).avg_rating, 1)

\* vote-weighted mean rating of a group of episodes
WeightedRating(rows) == Rat(SumRatingVotes(rows), SumVotes(rows))

\* the per-season statistics of one show, in ascending season order
SeasonAggregates(eps, show) ==
    LET seasons == Ascending(SeasonNums(eps, show))
    IN  [i \in 1..Len(seasons) |->
            LET rows == SeasonSlice(eps, show, seasons[i])
            IN  [show_tconst |-> show,
                 season_num |-> seasons[i],
                 episode_count |-> Len(rows),
                 season_total_votes |-> SumVotes(rows),
                 weighted_rating |-> WeightedRating(rows)]]

\* the weighted_rating column of a show's rows
WeightedRatings(ks) == [i \in 1..Len(ks) |-> ks[i].weighted_rating]

\* the simple mean of the seasons' weighted ratings
SeriesAvgOfSeasonMeans(eps, show) ==
    LET wr == WeightedRatings(SeasonAggregates(eps, show))
    IN  RatDiv(RatSum(wr, 1, Len(wr)), Len(wr))

\* the show's weighted rating over all its episodes
SeriesAvg(eps, show) == WeightedRating(ShowSlice(eps, show))

\* first row of the window that ends at row i
WindowStart(i) == IF i > RollingWindow THEN i - RollingWindow + 1 ELSE 1

\* first row of the window when it is taken by season_num value
RECURSIVE WindowStartByValue(_, _, _)
WindowStartByValue(ks, i, j) ==
    IF ks[j].season_num > ks[i].season_num - RollingWindow THEN j
    ELSE WindowStartByValue(ks, i, j + 1)

\* mean over the rows whose season_num is within 2 of that of row i
Rolling3ByValue(ks, i) ==
    RatDiv(RatSum(WeightedRatings(ks), WindowStartByValue(ks, i, 1), i),
           i - WindowStartByValue(ks, i, 1) + 1)

\* mean of weighted_rating over row i and up to two rows before it
Rolling3SeasonAvg(ks, i) ==
    RatDiv(RatSum(WeightedRatings(ks), WindowStart(i), i), i - WindowStart(i) + 1)

\* rank of row i by weighted_rating descending, ties sharing a rank
SeasonRankShared(ks, i) ==
    1 + Cardinality({j \in 1..Len(ks) :
            RatGreater(ks[j].weighted_rating, ks[i].weighted_rating)})

\* rank of row i by weighted_rating descending, then season_num descending
SeasonRankLaterFirst(ks, i) ==
    1 + Cardinality({j \in 1..Len(ks) :
            \/ RatGreater(ks[j].weighted_rating, ks[i].weighted_rating)
            \/ /\ RatEq(ks[j].weighted_rating, ks[i].weighted_rating)
               /\ ks[j].season_num > ks[i].season_num})

\* rank of row i by weighted_rating descending, then season_num ascending
SeasonRankBest(ks, i) ==
    1 + Cardinality({j \in 1..Len(ks) :
            \/ RatGreater(ks[j].weighted_rating, ks[i].weighted_rating)
            \/ /\ RatEq(ks[j].weighted_rating, ks[i].weighted_rating)
               /\ ks[j].season_num < ks[i].season_num})

\* the agg_season_kpis rows of one show
ShowKpis(eps, show) ==
    LET ks == SeasonAggregates(eps, show)
    IN  [i \in 1..Len(ks) |->
            [show_tconst |-> show,
             season_num |-> ks[i].season_num,
             episode_count |-> ks[i].episode_count,
             season_total_votes |-> ks[i].season_total_votes,
             weighted_rating |-> ks[i].weighted_rating,
             series_avg |-> SeriesAvg(eps, show),
             rolling_3_season_avg |-> Rolling3SeasonAvg(ks, i),
             season_rank_best |-> SeasonRankBest(ks, i),
             catalog_value_index |-> ks[i].weighted_rating.num]]

\* agg_season_kpis: the rows of every show of dim, show after show
RECURSIVE SeasonKpis(_, _)
SeasonKpis(eps, dim) ==
    IF dim = <<>> THEN <<>>
    ELSE ShowKpis(eps, Head(dim)) \o SeasonKpis(eps, Tail(dim))

\* ------------------------------------------------------------------------
\* Shark-jump detector (sql/03_shark_jump.sql)
\* ------------------------------------------------------------------------

\* a season is below when its rolling average is under the series average
Below(k) == RatLess(k.rolling_3_season_avg, k.series_avg)

\* the earlier season of the first pair ks[i], ks[i+1], from row i on, of
\* seasons numbered n and n+1 that are both below
RECURSIVE FirstBelowPair(_, _)
FirstBelowPair(ks, i) ==
    IF i >= Len(ks) THEN NULL
    ELSE IF /\ Below(ks[i])
            /\ Below(ks[i + 1])
            /\ ks[i + 1].season_num = ks[i].season_num + 1
         THEN Some(ks[i].season_num)
         ELSE FirstBelowPair(ks, i + 1)

\* shark_jump_season of a show whose KPI rows are ks, in season order
SharkJumpSeason(ks) == FirstBelowPair(ks, 1)

\* shark_jump_results: one row for each show of dim
SharkJumpResults(kpis, dim) ==
    [i \in 1..Len(dim) |->
        [show_tconst |-> dim[i],
         shark_jump_season |-> SharkJumpSeason(ShowSlice(kpis, dim[i]))]]

\* ------------------------------------------------------------------------
\* Durability index (sql/04_durability.sql)
\* ------------------------------------------------------------------------

\* a season counts when its weighted rating is not under the series average
AtLeastAvg(k) == ~RatLess(k.weighted_rating, k.series_avg)

\* a season counts when its weighted rating is above the series average
AboveAvg(k) == RatGreater(k.weighted_rating, k.series_avg)

\* number of the rows ks that count
RECURSIVE DurabilityIndex(_)
DurabilityIndex(ks) ==
    IF ks = <<>> THEN 0
    ELSE (IF AboveAvg(Head(ks)) THEN 1 ELSE 0) + DurabilityIndex(Tail(ks))

\* durability_index: one row for each show of dim
DurabilityResults(kpis, dim) ==
    [i \in 1..Len(dim) |->
        [show_tconst |-> dim[i],
         durability_index |-> Some(DurabilityIndex(ShowSlice(kpis, dim[i])))]]

\* ------------------------------------------------------------------------
\* Phase 2 validation (qa/validate.py, validate_phase2)
\* ------------------------------------------------------------------------

\* lowest and highest rating of the scale
MinRating == 1

MaxRating == 10

\* lowest shark_jump_season Check 17 accepts
MinSharkJump == 3

\* the column col of a table, as a sequence
Column(tbl, col) == [i \in 1..Len(tbl) |-> tbl[i][col]]

\* set(df["show_tconst"].unique())
ShowSet(tbl) == {tbl[i].show_tconst : i \in 1..Len(tbl)}

\* DataFrame.sort_values("season_num"): stable insertion of each row in turn
RECURSIVE InsertBySeason(_, _)
InsertBySeason(sorted, r) ==
    IF sorted = <<>> THEN <<r>>
    ELSE IF r.season_num < Head(sorted).season_num THEN <<r>> \o sorted
         ELSE <<Head(sorted)>> \o InsertBySeason(Tail(sorted), r)

RECURSIVE SortBySeason(_)
SortBySeason(rows) ==
    IF rows = <<>> THEN <<>>
    ELSE InsertBySeason(SortBySeason(SubSeq(rows, 1, Len(rows) - 1)), rows[Len(rows)])

\* list.index(x): position of the first x in the list
RECURSIVE IndexOf(_, _, _)
IndexOf(list, x, i) ==
    IF list[i] = x THEN i ELSE IndexOf(list, x, i + 1)

\* Check 19: the season numbers whose rolling average is under series_avg
BelowSeasons(show_kpis) ==
    LET IsBelow(k) == RatLess(k.rolling_3_season_avg, k.series_avg)
    IN  Column(SelectSeq(show_kpis, IsBelow), "season_num")

\* Check 19: the loop over pairs of below_seasons, from index i (1-based)
RECURSIVE FirstConsecutivePair(_, _, _)
FirstConsecutivePair(below_seasons, all_seasons, i) ==
    IF i > Len(below_seasons) - 1 THEN NULL
    ELSE LET s1 == below_seasons[i]
             s2 == below_seasons[i + 1]
             idx1 == IndexOf(all_seasons, s1, 1)
         IN  IF idx1 + 1 <= Len(all_seasons) /\ all_seasons[idx1 + 1] = s2
             THEN Some(s1)
             ELSE FirstConsecutivePair(below_seasons, all_seasons, i + 1)

\* Check 19: expected_sj of the show tconst
ExpectedSj(kpi, tconst) ==
    LET show_kpis == SortBySeason(ShowSlice(kpi, tconst))
        all_seasons == Ascending({show_kpis[i].season_num : i \in 1..Len(show_kpis)})
    IN  FirstConsecutivePair(BelowSeasons(show_kpis), all_seasons, 1)

\* Check 17: the verdict on one shark_jump_results row
SharkJumpSeasonOk(row) ==
    IF IsNa(row.shark_jump_season) THEN TRUE
    ELSE IntOf(row.shark_jump_season) >= MinSharkJump

\* the rows are of distinct shows, fewer than the valid ones
FewerRowsThanShows(df, valid_shows) ==
    /\ Len(df) = Cardinality(ShowSet(df))
    /\ ShowSet(df) \subseteq valid_shows
    /\ ShowSet(df) # valid_shows

\* Checks 17 and 18: exactly 1 row per show
OneRowPerShow(df, valid_shows) ==
    Len(df) = Cardinality(ShowSet(df)) /\ ShowSet(df) = valid_shows

\* a durability_index row passes only when the index is positive
DurabilityIndexPositive(row) ==
    ~IsNa(row.durability_index) /\ IntOf(row.durability_index) > 0

\* Check 18: the verdict on one durability_index row
DurabilityIndexOk(row) ==
    ~IsNa(row.durability_index) /\ IntOf(row.durability_index) >= 0

\* Check 19: the verdict on one triggered row
OffByOneOk(kpi, row) ==
    LET expected_sj == ExpectedSj(kpi, row.show_tconst)
    IN  ~IsNa(expected_sj) /\ IntOf(row.shark_jump_season) = IntOf(expected_sj)

\* Check 20: row count of an output
GrainOk(df, valid_shows) == Len(df) = Cardinality(valid_shows)

\* Check 21: the three outputs and SHOW_IDS name the same shows
CrossFileOk(kpi, shark, dur, valid_shows) ==
    /\ ShowSet(kpi) = ShowSet(shark)
    /\ ShowSet(shark) = ShowSet(dur)
    /\ ShowSet(dur) = valid_shows

\* no two KPI rows share season_num, whatever their shows
KpiUniqueSeasons(kpi) ==
    \A i, j \in 1..Len(kpi) : kpi[i].season_num = kpi[j].season_num => i = j

\* Check 13: no two KPI rows share (show_tconst, season_num)
KpiUnique(kpi) ==
    \A i, j \in 1..Len(kpi) :
        (kpi[i].show_tconst = kpi[j].show_tconst
            /\ kpi[i].season_num = kpi[j].season_num) => i = j

\* Check 15: the minimum of a column is positive (min of no rows is NaN)
ColumnPositive(kpi, col) ==
    Len(kpi) > 0 /\ \A i \in 1..Len(kpi) : kpi[i][col] > 0

\* weighted_rating within the bounds taken as stored units
WeightedRatingUnscaled(kpi) ==
    /\ Len(kpi) > 0
    /\ \A i \in 1..Len(kpi) :
          /\ ~RatLess(kpi[i].weighted_rating, Rat(MinRating, 1))
          /\ ~RatGreater(kpi[i].weighted_rating, Rat(MaxRating, 1))

\* Check 16: weighted_rating within the scale
WeightedRatingInRange(kpi) ==
    /\ Len(kpi) > 0
    /\ \A i \in 1..Len(kpi) :
          /\ ~RatLess(kpi[i].weighted_rating, Rat(MinRating * RatingScale, 1))
          /\ ~RatGreater(kpi[i].weighted_rating, Rat(MaxRating * RatingScale, 1))

\* one line of the report: runner.check(name, passed)
CheckLine(name, passed) ==
    [name |-> name, passed |-> passed, show |-> NULL, warn |-> FALSE]

\* one line of the report: runner.warn(name, ok)
WarnLine(name, ok) ==
    [name |-> name, passed |-> ok, show |-> NULL, warn |-> TRUE]

\* one line of the report about the row of a show
RowLine(name, passed, row) ==
    [name |-> name, passed |-> passed, show |-> Some(row.show_tconst),
     warn |-> FALSE]

\* the rows of shark_df with a shark_jump_season
Triggered(shark) ==
    LET NotNa(r) == ~IsNa(r.shark_jump_season)
    IN  SelectSeq(shark, NotNa)

\* the report lines of Checks 12 to 21 in the order they are made
Phase2Lines(kpi, shark, dur, is_sample) ==
    LET valid_shows == SHOW_IDS
        triggered == Triggered(shark)
    IN  <<CheckLine("kpi columns", TRUE),
          CheckLine("kpi dtypes", TRUE),
          CheckLine("kpi unique", KpiUnique(kpi)),
          CheckLine("kpi show membership", ShowSet(kpi) \subseteq valid_shows),
          CheckLine("season_num > 0", ColumnPositive(kpi, "season_num")),
          CheckLine("episode_count > 0", ColumnPositive(kpi, "episode_count")),
          CheckLine("weighted_rating range", WeightedRatingInRange(kpi)),
          CheckLine("catalog_value_index > 0", ColumnPositive(kpi, "catalog_value_index")),
          CheckLine("shark columns", TRUE),
          CheckLine("shark 1 row per show", OneRowPerShow(shark, valid_shows))>>
        \o [i \in 1..Len(shark) |->
               RowLine("shark_jump_season", SharkJumpSeasonOk(shark[i]), shark[i])]
        \o <<CheckLine("durability columns", TRUE),
             CheckLine("durability 1 row per show", OneRowPerShow(dur, valid_shows))>>
        \o [i \in 1..Len(dur) |->
               RowLine("durability_index", DurabilityIndexOk(dur[i]), dur[i])]
        \o (IF is_sample
            THEN <<CheckLine("at least one trigger", Len(triggered) > 0)>>
                 \o [i \in 1..Len(triggered) |->
                        RowLine("off-by-one", OffByOneOk(kpi, triggered[i]), triggered[i])]
            ELSE <<>>)
        \o <<CheckLine("shark row count", GrainOk(shark, valid_shows)),
             CheckLine("durability row count", GrainOk(dur, valid_shows)),
             CheckLine("cross-file shows", CrossFileOk(kpi, shark, dur, valid_shows))>>

\* number of lines that did not pass, warnings included
RECURSIVE CountNotPassed(_)
CountNotPassed(lines) ==
    IF lines = <<>> THEN 0
    ELSE (IF Head(lines).passed THEN 0 ELSE 1) + CountNotPassed(Tail(lines))

\* number of runner.check lines that failed
RECURSIVE CountFailed(_)
CountFailed(lines) ==
    IF lines = <<>> THEN 0
    ELSE (IF Head(lines).passed \/ Head(lines).warn THEN 0 ELSE 1)
             + CountFailed(Tail(lines))

\* number of runner.warn lines that were not ok
RECURSIVE CountWarned(_)
CountWarned(lines) ==
    IF lines = <<>> THEN 0
    ELSE (IF ~Head(lines).passed /\ Head(lines).warn THEN 1 ELSE 0)
             + CountWarned(Tail(lines))

\* CheckRunner after its constructor
NewRunner == [total |-> 0, failures |-> 0, warnings |-> 0]

\* CheckRunner after runner.check or runner.warn was called for each line
AfterChecks(runner, lines) ==
    [runner EXCEPT !.total = @ + Len(lines),
                   !.failures = @ + CountFailed(lines),
                   !.warnings = @ + CountWarned(lines)]

\* CheckRunner after a file was not found: runner.failures += 1
AfterFileNotFound(runner) == [runner EXCEPT !.failures = @ + 1]

\* validate_phase2: the runner and the lines it leaves; read tells whether
\* the three files were there
ValidatePhase2(runner, files, is_sample) ==
    IF \E f \in DOMAIN files : IsNa(files[f])
    THEN [runner |-> AfterFileNotFound(runner), lines |-> <<>>, read |-> FALSE]
    ELSE LET lines == Phase2Lines(ReadCsv(files.kpi), ReadCsv(files.shark),
                                  ReadCsv(files.dur), is_sample)
         IN  [runner |-> AfterChecks(runner, lines), lines |-> lines,
              read |-> TRUE]

\* ------------------------------------------------------------------------
\* Phase 1 validation (qa/validate.py, validate_phase1)
\* ------------------------------------------------------------------------

\* number of rows shows_metadata.csv must have
ExpectedShowRows == 4

\* generate_shows_metadata: one row for each show of SHOW_IDS
ShowsMetadata == [i \in 1..Len(ShowOrder) |-> [show_tconst |-> ShowOrder[i]]]

\* episodes_basics.csv of generate_synthetic: one tvEpisode row per episode
BasicsOf(ep_df) ==
    [i \in 1..Len(ep_df) |->
        [episode_tconst |-> ep_df[i].episode_tconst, title_type |-> "tvEpisode"]]

\* a row of episodes_basics.csv for an episode that is not in ep_df
ExtraBasicsRow ==
    [episode_tconst |-> SyntheticId("none", 0, 0), title_type |-> "tvEpisode"]

\* Series.duplicated().sum() == 0
NoDuplicates(col) == \A i, j \in 1..Len(col) : col[i] = col[j] => i = j

\* the set of the values of a column
ValueSet(col) == {col[i] : i \in 1..Len(col)}

\* Check 4: avg_rating within the scale (the minimum of no rows is NaN)
RatingsInRange(ep_df) ==
    /\ Len(ep_df) > 0
    /\ \A i \in 1..Len(ep_df) :
          /\ ep_df[i].avg_rating >= MinRating * RatingScale
          /\ ep_df[i].avg_rating <= MaxRating * RatingScale

\* Check 4: num_votes >= 0 (the minimum of no rows is NaN)
VotesNonNegative(ep_df) ==
    Len(ep_df) > 0 /\ \A i \in 1..Len(ep_df) : ep_df[i].num_votes >= 0

\* Check 11: str.startswith("tt999")
IsSynthetic(episode_tconst) == episode_tconst[1] = "tt999"

\* the report lines of Checks 1 to 11 in the order they are made; the
\* columns of the model's tables are all there and hold no NULL
Phase1Lines(ep_df, shows_df, basics_df, is_sample) ==
    LET valid_shows == SHOW_IDS
        ep_set == ValueSet(Column(ep_df, "episode_tconst"))
        basics_set == ValueSet(Column(basics_df, "episode_tconst"))
    IN  <<CheckLine("episodes_filtered columns", TRUE),
          CheckLine("shows_metadata columns", TRUE),
          CheckLine("episodes_basics columns", TRUE),
          CheckLine("episodes_filtered dtypes", TRUE),
          CheckLine("unique episode_tconst",
                    NoDuplicates(Column(ep_df, "episode_tconst"))),
          CheckLine("season_num valid",
                    \A i \in 1..Len(ep_df) : ep_df[i].season_num # 0),
          CheckLine("episode_num valid", TRUE),
          CheckLine("avg_rating range", RatingsInRange(ep_df)),
          CheckLine("num_votes >= 0", VotesNonNegative(ep_df)),
          CheckLine("episodes show membership", ShowSet(ep_df) \subseteq valid_shows),
          CheckLine("title_type",
                    \A i \in 1..Len(basics_df) :
                        basics_df[i].title_type = "tvEpisode"),
          CheckLine("unique episode_tconst in basics",
                    NoDuplicates(Column(basics_df, "episode_tconst"))),
          CheckLine("key alignment", ep_set \subseteq basics_set),
          WarnLine("row counts equal", Len(ep_df) = Len(basics_df)),
          CheckLine("exactly 4 rows", Len(shows_df) = ExpectedShowRows),
          CheckLine("shows_metadata shows", ShowSet(shows_df) = valid_shows)>>
        \o (IF is_sample
            THEN <<CheckLine("synthetic ids",
                             \A i \in 1..Len(ep_df) :
                                 IsSynthetic(ep_df[i].episode_tconst))>>
            ELSE <<>>)

\* validate_phase1: the runner and the lines it leaves; ok is its result,
\* FALSE when a file of data_dir was not found
ValidatePhase1(runner, ep_df, data_dir, is_sample) ==
    IF IsNa(data_dir)
    THEN [runner |-> AfterFileNotFound(runner), lines |-> <<>>, ok |-> FALSE]
    ELSE LET lines == Phase1Lines(ep_df, ReadCsv(data_dir).shows_df,
                                  ReadCsv(data_dir).basics_df, is_sample)
         IN  [runner |-> AfterChecks(runner, lines), lines |-> lines, ok |-> TRUE]

\* ------------------------------------------------------------------------
\* validate and main of qa/validate.py
\* ------------------------------------------------------------------------

\* validate: Phase 1, then Phase 2 under --all when Phase 1 found its files
ValidateResult(ep_df, data_dir, files, is_sample, run_all) ==
    LET p1 == ValidatePhase1(NewRunner, ep_df, data_dir, is_sample)
        p2 == ValidatePhase2(p1.runner, files, is_sample)
    IN  IF run_all /\ p1.ok
        THEN [runner |-> p2.runner, lines |-> p1.lines \o p2.lines,
              ended |-> IF ~p2.read THEN "missing"
                        ELSE IF is_sample THEN "sample" ELSE "full"]
        ELSE [runner |-> p1.runner, lines |-> p1.lines,
              ended |-> IF p1.ok THEN "phase1" ELSE "nofiles"]

\* main: sys.exit(1 if failures > 0 else 0)
ExitStatus(failures) == IF failures > 0 THEN 1 ELSE 0

\* ------------------------------------------------------------------------
\* SharkJumpSanity tab (pipeline/03_generate_qa_workbook.py)
\* ------------------------------------------------------------------------

\* sorted(SHOW_IDS): the show ids in string order
SortedShows == <<"tt0096697", "tt0182576", "tt0206512", "tt1520211">>

\* lambda of flag_suspicious
FlagSuspicious(x) == ~IsNa(x) /\ IntOf(x) \in {1, 2}

\* kpi_df.groupby("show_tconst")["season_num"].max(), NaN for a show without rows
TotalSeasons(kpi, show) ==
    LET nums == SeasonNums(kpi, show)
    IN  IF nums = {} THEN NULL
        ELSE Some(CHOOSE m \in nums : \A n \in nums : n <= m)

\* the rows of the tab, sorted by show_tconst
RECURSIVE SanityRows(_, _, _)
SanityRows(shark, kpi, order) ==
    IF order = <<>> THEN <<>>
    ELSE LET mine == ShowSlice(shark, Head(order))
         IN  [i \in 1..Len(mine) |->
                 [show_tconst |-> mine[i].show_tconst,
                  shark_jump_season |-> mine[i].shark_jump_season,
                  total_seasons |-> TotalSeasons(kpi, mine[i].show_tconst),
                  flag_suspicious |-> FlagSuspicious(mine[i].shark_jump_season)]]
             \o SanityRows(shark, kpi, Tail(order))

\* build_shark_jump_sanity: the rows, n_pass and n_fail
SharkJumpSanity(shark, kpi) ==
    LET merged == SanityRows(shark, kpi, SortedShows)
        Flagged(r) == r.flag_suspicious
        n_fail == Len(SelectSeq(merged, Flagged))
    IN  [rows |-> merged, n_pass |-> Len(merged) - n_fail, n_fail |-> n_fail]

\* ------------------------------------------------------------------------
\* EpisodeCountPivot tab (pipeline/03_generate_qa_workbook.py)
\* ------------------------------------------------------------------------

\* fillna(1): a missing side counted as one episode
FillNaWithOne(x) == IF IsNa(x) THEN 1 ELSE IntOf(x)

\* fillna(-1).astype(int)
FillNa(x) == IF IsNa(x) THEN 0 - 1 ELSE IntOf(x)

\* merged.loc[col == -1, col] = None
SentinelToNone(n) == IF n = 0 - 1 THEN NULL ELSE Some(n)

\* ep_df.groupby(["show_tconst", "season_num"]).size() at one pair, NaN
\* after the outer join when the pair has no episode
EpCountFromEpisodes(ep_df, show, season) ==
    LET n == Len(SeasonSlice(ep_df, show, season))
    IN  IF n = 0 THEN NULL ELSE Some(n)

\* one row of the tab from the two sides of the outer join
PivotRow(show, season, from_episodes, from_kpis) ==
    LET diff == FillNa(from_episodes) - FillNa(from_kpis)
    IN  [show_tconst |-> show,
         season_num |-> season,
         ep_count_from_episodes |-> SentinelToNone(FillNa(from_episodes)),
         ep_count_from_kpis |-> SentinelToNone(FillNa(from_kpis)),
         diff |-> diff,
         match |-> diff = 0]

\* the rows the outer join gives one (show, season): one for each KPI row of
\* the pair, or one without a KPI side
PairRows(ep_df, kpi, show, season) ==
    LET ks == SeasonSlice(kpi, show, season)
        n == EpCountFromEpisodes(ep_df, show, season)
    IN  IF ks = <<>> THEN <<PivotRow(show, season, n, NULL)>>
        ELSE [i \in 1..Len(ks) |->
                 PivotRow(show, season, n, Some(ks[i].episode_count))]

\* the rows of one show for the seasons listed
RECURSIVE ShowPivotRows(_, _, _, _)
ShowPivotRows(ep_df, kpi, show, seasons) ==
    IF seasons = <<>> THEN <<>>
    ELSE PairRows(ep_df, kpi, show, Head(seasons))
             \o ShowPivotRows(ep_df, kpi, show, Tail(seasons))

\* merged.sort_values(["show_tconst", "season_num"]); the left join with
\* dim_show_category, one row per show, adds the title and no row
RECURSIVE PivotRows(_, _, _)
PivotRows(ep_df, kpi, order) ==
    IF order = <<>> THEN <<>>
    ELSE LET show == Head(order)
             seasons == SeasonNums(ep_df, show) \cup SeasonNums(kpi, show)
         IN  ShowPivotRows(ep_df, kpi, show, Ascending(seasons))
                 \o PivotRows(ep_df, kpi, Tail(order))

\* build_episode_count_pivot: the rows, n_pass and n_fail
BuildEpisodeCountPivotResult(ep_df, kpi) ==
    LET merged == PivotRows(ep_df, kpi, SortedShows)
        Matching(r) == r.match
        n_pass == Len(SelectSeq(merged, Matching))
    IN  [rows |-> merged, n_pass |-> n_pass, n_fail |-> Len(merged) - n_pass]

\* ------------------------------------------------------------------------
\* WeightedRatingCheck tab (pipeline/03_generate_qa_workbook.py)
\* ------------------------------------------------------------------------

\* sorted(ep_df["show_tconst"].unique()), from position i of the order
RECURSIVE ShowsOf(_, _)
ShowsOf(ep_df, order) ==
    IF order = <<>> THEN <<>>
    ELSE (IF Head(order) \in ShowSet(ep_df) THEN <<Head(order)>> ELSE <<>>)
             \o ShowsOf(ep_df, Tail(order))

\* the KPI rows the spot-check season is picked from: not season 1 if possible
Candidates(show_kpis) ==
    LET NotFirst(k) == k.season_num # 1
        others == SelectSeq(show_kpis, NotFirst)
    IN  IF Len(others) > 0 THEN others ELSE show_kpis

\* sort_values(["episode_count", "season_num"], ascending=[False, True])
\* .iloc[0], on candidates that are not empty
FirstCandidate(candidates) ==
    LET Before(a, b) ==
            \/ a.episode_count > b.episode_count
            \/ a.episode_count = b.episode_count /\ a.season_num <= b.season_num
    IN  candidates[CHOOSE i \in 1..Len(candidates) :
                       \A j \in 1..Len(candidates) :
                           Before(candidates[i], candidates[j])]

\* abs(manual_wr - sql_wr) <= 0.01, the ratings in tenths
WithinTolerance(manual_wr, sql_wr) ==
    LET d == manual_wr.num * sql_wr.den - sql_wr.num * manual_wr.den
        abs == IF d < 0 THEN 0 - d ELSE d
    IN  abs * 100 <= RatingScale * manual_wr.den * sql_wr.den

\* eps.sort_values(["episode_num", "episode_tconst"]): the episode rows of
\* the tab, the episodes of a season numbered apart
EpisodeTabRows(eps) ==
    LET nums == Ascending({eps[i].episode_num : i \in 1..Len(eps)})
    IN  [i \in 1..Len(nums) |->
            LET ep == eps[CHOOSE j \in 1..Len(eps) : eps[j].episode_num = nums[i]]
            IN  [show_tconst |-> ep.show_tconst,
                 season_num |-> ep.season_num,
                 episode_tconst |-> ep.episode_tconst,
                 is_summary |-> FALSE]]

\* the rows of one show: its episodes of the chosen season, then SUMMARY
SpotCheckRows(ep_df, kpi, show) ==
    LET chosen == FirstCandidate(Candidates(ShowSlice(kpi, show)))
        eps == SeasonSlice(ep_df, show, chosen.season_num)
        sum_votes == SumVotes(eps)
        passed == IF sum_votes = 0 THEN FALSE
                  ELSE WithinTolerance(Rat(SumRatingVotes(eps), sum_votes),
                                       chosen.weighted_rating)
    IN  Append(EpisodeTabRows(eps),
               [show_tconst |-> show,
                season_num |-> chosen.season_num,
                episode_tconst |-> "SUMMARY",
                is_summary |-> TRUE,
                sum_rating_x_votes |-> SumRatingVotes(eps),
                sum_votes |-> sum_votes,
                pass |-> passed,
                note |-> IF sum_votes = 0 THEN "sum_votes=0" ELSE ""])

\* the rows of the shows listed
RECURSIVE WeightedRatingRows(_, _, _)
WeightedRatingRows(ep_df, kpi, shows) ==
    IF shows = <<>> THEN <<>>
    ELSE SpotCheckRows(ep_df, kpi, Head(shows))
             \o WeightedRatingRows(ep_df, kpi, Tail(shows))

\* build_weighted_rating_check: the rows, n_pass and n_fail; raised tells
\* that candidates.iloc[0] raised IndexError for a show without KPI rows
BuildWeightedRatingCheckResult(ep_df, kpi) ==
    LET shows == ShowsOf(ep_df, SortedShows)
    IN  IF \E i \in 1..Len(shows) : ShowSlice(kpi, shows[i]) = <<>>
        THEN [raised |-> TRUE, rows |-> <<>>, n_pass |-> 0, n_fail |-> 0]
        ELSE LET rows == WeightedRatingRows(ep_df, kpi, shows)
                 Passed(r) == r.is_summary /\ r.pass
                 NotPassed(r) == r.is_summary /\ ~r.pass
             IN  [raised |-> FALSE, rows |-> rows,
                  n_pass |-> Len(SelectSeq(rows, Passed)),
                  n_fail |-> Len(SelectSeq(rows, NotPassed))]

\* ------------------------------------------------------------------------
\* The files 03_generate_qa_workbook.py loads
\* ------------------------------------------------------------------------

\* number of seasons of the main show in the workbook inputs
WorkbookSeasons == 3

\* n episodes of a season, rated 6.0, 9.0, 12.0 ... with the votes given
SeasonOfCount(n, votes) == [i \in 1..n |-> <<60 + 30 * (i - 1), votes>>]

\* episodes_filtered.csv: up to MaxEpisodes episodes in each season of the
\* main show and at most one episode of another show, all with the votes
\* given; load_and_validate exits on a file without rows
WorkbookEpisodes(votes) ==
    {ShowRows(MainShow, [s \in 1..WorkbookSeasons |-> SeasonOfCount(f[s], votes)],
              1, WorkbookSeasons)
         \o SeasonRows(SortedShows[2], 1, SeasonOfCount(m, votes)) :
         f \in [1..WorkbookSeasons -> 0..MaxEpisodes], m \in 0..1} \ {<<>>}

\* agg_season_kpis.csv: the KPI rows of an export, made from episodes that
\* all carried votes
WorkbookKpis == {SeasonKpis(eps, SortedShows) : eps \in WorkbookEpisodes(2)}

\* ------------------------------------------------------------------------
\* 01_subset_imdb.py: the raw IMDb files and the sample fixtures
\* ------------------------------------------------------------------------

\* largest number of rows of title.basics
MaxBasicsRows == 2

\* the ids of two episodes of the raw files
RawEpisodeIds == <<"tt0000011", "tt0000012">>

\* a series that is not one of SHOW_IDS
UnlistedShow == "tt0000001"

\* a well-formed row of title.episode
EpisodeRow(tconst) ==
    [tconst |-> tconst, parentTconst |-> MainShow,
     seasonNumber |-> Some(1), episodeNumber |-> Some(1)]

\* the rows of title.episode an episode can have: well-formed, or with one
\* field that is \N, zero, negative or of another series
RawEpisodeRows(tconst) ==
    {[EpisodeRow(tconst) EXCEPT !.seasonNumber = s] :
         s \in {NULL, Some(0 - 1), Some(0), Some(1), Some(2)}}
    \cup {[EpisodeRow(tconst) EXCEPT !.episodeNumber = NULL],
          [EpisodeRow(tconst) EXCEPT !.parentTconst = UnlistedShow]}

\* title.episode: a row of the first episode, alone or followed by a second
\* row of the same or of the other episode
EpisodeTables ==
    {<<r>> : r \in RawEpisodeRows(RawEpisodeIds[1])}
    \cup {<<r, EpisodeRow(t)>> :
              r \in RawEpisodeRows(RawEpisodeIds[1]),
              t \in {RawEpisodeIds[1], RawEpisodeIds[2]}}

\* a well-formed row of title.ratings (rating in tenths)
RatingRow(tconst) ==
    [tconst |-> tconst, averageRating |-> Some(85), numVotes |-> Some(5)]

\* the rows of title.ratings an episode can have
RawRatingRows(tconst) ==
    {[RatingRow(tconst) EXCEPT !.averageRating = a] :
         a \in {NULL, Some(0), Some(85), Some(105)}}
    \cup {[RatingRow(tconst) EXCEPT !.numVotes = v] :
              v \in {NULL, Some(0 - 1), Some(0)}}

\* title.ratings: the second episode rated, the first rated or not
RatingTables ==
    {<<RatingRow(RawEpisodeIds[2])>>}
    \cup {<<r, RatingRow(RawEpisodeIds[2])>> :
              r \in RawRatingRows(RawEpisodeIds[1])}

\* the rows of title.basics of the two episodes
RawBasicsRows ==
    [tconst : {RawEpisodeIds[1], RawEpisodeIds[2]},
     titleType : {"tvEpisode", "movie"}]

\* the sequences of at most n rows
RECURSIVE TablesUpTo(_, _)
TablesUpTo(rows, n) ==
    IF n = 0 THEN {<<>>}
    ELSE LET shorter == TablesUpTo(rows, n - 1)
         IN  shorter \cup {Append(t, r) : t \in shorter, r \in rows}

\* title.basics
BasicsTables == TablesUpTo(RawBasicsRows, MaxBasicsRows)

\* the three files of RAW_DIR
RawInputs ==
    [episode : EpisodeTables, ratings : RatingTables, basics : BasicsTables]

\* DataFrame.rename of title.episode
RenameEpisode(r) ==
    [episode_tconst |-> r.tconst, show_tconst |-> r.parentTconst,
     season_num |-> r.seasonNumber, episode_num |-> r.episodeNumber]

\* DataFrame.rename of title.ratings
RenameRating(r) ==
    [episode_tconst |-> r.tconst, avg_rating |-> r.averageRating,
     num_votes |-> r.numVotes]

\* DataFrame.rename of title.basics
RenameBasics(r) == [episode_tconst |-> r.tconst, title_type |-> r.titleType]

\* a row of episodes joined with a row of ratings
JoinedRow(e, r) ==
    [episode_tconst |-> e.episode_tconst, show_tconst |-> e.show_tconst,
     season_num |-> e.season_num, episode_num |-> e.episode_num,
     avg_rating |-> r.avg_rating, num_votes |-> r.num_votes]

\* episodes.merge(ratings, on="episode_tconst", how="inner")
RECURSIVE Merge(_, _)
Merge(episodes_df, ratings_df) ==
    IF episodes_df = <<>> THEN <<>>
    ELSE LET e == Head(episodes_df)
             Matches(r) == r.episode_tconst = e.episode_tconst
             matched == SelectSeq(ratings_df, Matches)
         IN  [i \in 1..Len(matched) |-> JoinedRow(e, matched[i])]
             \o Merge(Tail(episodes_df), ratings_df)

\* the rows of the selected shows
OfSelectedShows(tbl) ==
    LET Selected(r) == r.parentTconst \in SHOW_IDS
    IN  SelectSeq(tbl, Selected)

\* the fixtures of SAMPLE_DIR that hold the rows of the raw files: the
\* episodes of the selected shows joined with their ratings, and the basics
SampleFixture(raw) ==
    LET eps == OfSelectedShows(raw.episode)
    IN  [ep_df |-> Merge([i \in 1..Len(eps) |-> RenameEpisode(eps[i])],
                         [i \in 1..Len(raw.ratings) |-> RenameRating(raw.ratings[i])]),
         shows_df |-> ShowsMetadata,
         basics_df |-> [i \in 1..Len(raw.basics) |-> RenameBasics(raw.basics[i])]]

\* ------------------------------------------------------------------------
\* 01_subset_imdb.py: run_default_mode and run_sample_mode
\* ------------------------------------------------------------------------

\* DataFrame.dropna(subset=[col])
DropNa(tbl, col) ==
    LET NotNa(r) == ~IsNa(r[col])
    IN  SelectSeq(tbl, NotNa)

\* df[df["season_num"] != 0], on rows whose season_num is not NULL
DropZeroSeason(tbl) ==
    LET NotZero(r) == IntOf(r.season_num) # 0
    IN  SelectSeq(tbl, NotZero)

\* the season_num and episode_num cleaning both modes apply
CleanSeasonAndEpisode(tbl) ==
    DropNa(DropZeroSeason(DropNa(tbl, "season_num")), "episode_num")

\* the avg_rating and num_votes cleaning both modes apply
CleanRatings(tbl) == DropNa(DropNa(tbl, "avg_rating"), "num_votes")

\* astype(int) and astype(float) of the cleaned columns
CastTypes(tbl) ==
    [i \in 1..Len(tbl) |->
        [tbl[i] EXCEPT !.season_num = IntOf(@), !.episode_num = IntOf(@),
                       !.avg_rating = IntOf(@), !.num_votes = IntOf(@)]]

\* the rows whose column col is in the set keys
IsIn(tbl, col, keys) ==
    LET Among(r) == r[col] \in keys
    IN  SelectSeq(tbl, Among)

\* DataFrame.drop_duplicates(subset=[col]): the first row of each value
RECURSIVE DropDuplicates(_, _)
DropDuplicates(tbl, col) ==
    IF tbl = <<>> THEN <<>>
    ELSE LET kept == DropDuplicates(SubSeq(tbl, 1, Len(tbl) - 1), col)
             last == tbl[Len(tbl)]
         IN  IF \E i \in 1..Len(kept) : kept[i][col] = last[col]
             THEN kept
             ELSE Append(kept, last)

\* the rows of basics whose title type is tvEpisode
TvEpisodes(tbl, col) ==
    LET IsTvEpisode(r) == r[col] = "tvEpisode"
    IN  SelectSeq(tbl, IsTvEpisode)

\* what a run leaves: how it ended and the files of OUTPUT_DIR it wrote
Outcome(ended, files) == [ended |-> ended, files |-> files]

\* the three files a run writes
OutputFiles(episodes_out, shows_out, basics_out) ==
    Some([episodes_filtered |-> episodes_out, shows_metadata |-> shows_out,
          episodes_basics |-> basics_out])

\* run_default_mode after the raw files were found; selecting a column of
\* the empty DataFrame made of no chunks raises KeyError
DefaultModeResult(raw) ==
    LET found == OfSelectedShows(raw.episode)
        episodes_df == CleanSeasonAndEpisode(
                           [i \in 1..Len(found) |-> RenameEpisode(found[i])])
        episode_tconst_set == ValueSet(Column(episodes_df, "episode_tconst"))
        ratings == IsIn(raw.ratings, "tconst", episode_tconst_set)
        joined == CleanRatings(
                      Merge(episodes_df,
                            [i \in 1..Len(ratings) |-> RenameRating(ratings[i])]))
        basics == IsIn(raw.basics, "tconst", episode_tconst_set \cup SHOW_IDS)
        ep_basics == IsIn(basics, "tconst", episode_tconst_set)
        show_basics == IsIn(basics, "tconst", SHOW_IDS)
        ep_basics_dedup == DropDuplicates(ep_basics, "tconst")
        verified == ValueSet(Column(TvEpisodes(ep_basics_dedup, "titleType"),
                                    "tconst"))
        valid_ep_basics == TvEpisodes(ep_basics_dedup, "titleType")
        shows_out == DropDuplicates(
                         [i \in 1..Len(show_basics) |->
                             [show_tconst |-> show_basics[i].tconst]],
                         "show_tconst")
    IN  IF found = <<>> \/ basics = <<>>
        THEN Outcome("raised", NULL)
        ELSE Outcome("written",
                 OutputFiles(
                     CastTypes(IsIn(joined, "episode_tconst", verified)),
                     shows_out,
                     [i \in 1..Len(valid_ep_basics) |->
                         RenameBasics(valid_ep_basics[i])]))

\* run_default_mode: sys.exit(1) when a raw file is not found
RunDefaultModeResult(raw_dir) ==
    IF IsNa(raw_dir) THEN Outcome("exit1", NULL)
    ELSE DefaultModeResult(ReadCsv(raw_dir))

\* run_sample_mode: sys.exit(1) when a fixture is not found
RunSampleModeResult(sample_dir) ==
    IF IsNa(sample_dir) THEN Outcome("exit1", NULL)
    ELSE LET fix == ReadCsv(sample_dir)
             ep_df == CleanRatings(CleanSeasonAndEpisode(fix.ep_df))
             valid_basics == TvEpisodes(fix.basics_df, "title_type")
             valid_tconsts == ValueSet(Column(valid_basics, "episode_tconst"))
         IN  Outcome("written",
                 OutputFiles(
                     CastTypes(IsIn(ep_df, "episode_tconst", valid_tconsts)),
                     fix.shows_df,
                     fix.basics_df))

\* ------------------------------------------------------------------------
\* State
\* ------------------------------------------------------------------------

VARIABLES
    episodes,       \* rows of episodes_filtered.csv
    pc,             \* position of 02_run_sql.py main
    fact_episode,   \* DuckDB table fact_episode
    dim_show,       \* DuckDB table dim_show (show ids)
    kpi_df,         \* agg_season_kpis
    shark_df,       \* result of 03_shark_jump.sql
    dur_df,         \* result of 04_durability.sql
    ran,            \* the SQL stages it has executed, in order
    out,            \* the exported CSV files, each NULL while not written
    vpc,            \* how far validate of qa/validate.py went
    runner,         \* its CheckRunner
    report,         \* the lines it printed
    cli,            \* the flags validate.py was run with, NULL before it ran
    status,         \* its exit status, NULL before it ran
    sanity,         \* result of build_shark_jump_sanity, NULL before it ran
    pivot,          \* result of build_episode_count_pivot, NULL before it ran
    wr_check,       \* result of build_weighted_rating_check, NULL before it ran
    raw_dir,        \* the IMDb files of RAW_DIR, NULL when not there
    sample_dir,     \* the fixtures of SAMPLE_DIR, NULL when not there
    subset          \* outcome of 01_subset_imdb.py, NULL before it ran

vars == <<episodes, pc, fact_episode, dim_show, kpi_df, shark_df,
          dur_df, ran, out, vpc, runner, report, cli, status, sanity,
          pivot, wr_check, raw_dir, sample_dir, subset>>

\* what the tabs of the workbook other than SharkJumpSanity leave
tabVars == <<pivot, wr_check>>

\* what 01_subset_imdb.py reads and leaves
subsetVars == <<raw_dir, sample_dir, subset>>

pipelineVars == <<pc, fact_episode, dim_show, kpi_df, shark_df, dur_df, ran, out>>

\* the output directory without the three CSV files
NoFiles == [kpi |-> NULL, shark |-> NULL, dur |-> NULL]

\* the order in which main runs the SQL files
StageOrder == <<"schema", "kpis", "shark", "durability">>

Init ==
    /\ episodes \in EpisodeInputs
    /\ pc = "verify"
    /\ fact_episode = <<>>
    /\ dim_show = <<>>
    /\ kpi_df = <<>>
    /\ shark_df = <<>>
    /\ dur_df = <<>>
    /\ ran = <<>>
    /\ out = NoFiles
    /\ vpc = "idle"
    /\ runner = NewRunner
    /\ report = <<>>
    /\ cli = NULL
    /\ status = NULL
    /\ sanity = NULL
    /\ pivot = NULL
    /\ wr_check = NULL
    /\ raw_dir = NULL
    /\ sample_dir = NULL
    /\ subset = NULL

\* ------------------------------------------------------------------------
\* 02_run_sql.py main
\* ------------------------------------------------------------------------

\* verify the input files exist, else exit 1
VerifyInputs(inputs_exist) ==
    /\ pc = "verify"
    /\ pc' = IF inputs_exist THEN "schema" ELSE "exit1"
    /\ UNCHANGED <<tabVars, subsetVars,
                   episodes, fact_episode, dim_show, kpi_df, shark_df,
                   dur_df, ran, out, vpc, runner, report, cli, status, sanity>>

\* con.execute raised: main ends with the exception, nothing else changes
Raised ==
    /\ pc' = "raised"
    /\ UNCHANGED <<tabVars, subsetVars,
                   episodes, fact_episode, dim_show, kpi_df, shark_df,
                   dur_df, ran, out, vpc, runner, report, cli, status, sanity>>

\* 01_schema.sql: load dim_show and fact_episode
RunSchema(ok) ==
    /\ pc = "schema"
    /\ IF ok
       THEN /\ fact_episode' = episodes
            /\ dim_show' = ShowOrder
            /\ ran' = Append(ran, "schema")
            /\ pc' = "kpis"
            /\ UNCHANGED <<tabVars, subsetVars,
                           episodes, kpi_df, shark_df, dur_df, out,
                           vpc, runner, report, cli, status, sanity>>
       ELSE Raised

\* 02_season_kpis.sql and the fetch of agg_season_kpis, whose CSV file is
\* written at once
RunSeasonKpisThenWrite(ok) ==
    /\ pc = "kpis"
    /\ IF ok
       THEN /\ kpi_df' = SeasonKpis(fact_episode, dim_show)
            /\ out' = [out EXCEPT !.kpi = Some(SeasonKpis(fact_episode, dim_show))]
            /\ ran' = Append(ran, "kpis")
            /\ pc' = "shark"
            /\ UNCHANGED <<tabVars, subsetVars,
                           episodes, fact_episode, dim_show, shark_df,
                           dur_df, vpc, runner, report, cli, status, sanity>>
       ELSE Raised

\* 02_season_kpis.sql and the fetch of agg_season_kpis
RunSeasonKpis(ok) ==
    /\ pc = "kpis"
    /\ IF ok
       THEN /\ kpi_df' = SeasonKpis(fact_episode, dim_show)
            /\ ran' = Append(ran, "kpis")
            /\ pc' = "shark"
            /\ UNCHANGED <<tabVars, subsetVars,
                           episodes, fact_episode, dim_show, shark_df,
                           dur_df, out, vpc, runner, report, cli, status, sanity>>
       ELSE Raised

\* 03_shark_jump.sql
RunSharkJump(ok) ==
    /\ pc = "shark"
    /\ IF ok
       THEN /\ shark_df' = SharkJumpResults(kpi_df, dim_show)
            /\ ran' = Append(ran, "shark")
            /\ pc' = "durability"
            /\ UNCHANGED <<tabVars, subsetVars,
                           episodes, fact_episode, dim_show, kpi_df,
                           dur_df, out, vpc, runner, report, cli, status, sanity>>
       ELSE Raised

\* 04_durability.sql
RunDurability(ok) ==
    /\ pc = "durability"
    /\ IF ok
       THEN /\ dur_df' = DurabilityResults(kpi_df, dim_show)
            /\ ran' = Append(ran, "durability")
            /\ pc' = "export"
            /\ UNCHANGED <<tabVars, subsetVars,
                           episodes, fact_episode, dim_show, kpi_df,
                           shark_df, out, vpc, runner, report, cli, status, sanity>>
       ELSE Raised

\* kpi_df.to_csv(agg_season_kpis.csv)
WriteKpiCsv ==
    /\ pc = "export"
    /\ out' = [out EXCEPT !.kpi = Some(kpi_df)]
    /\ pc' = "write_shark"
    /\ UNCHANGED <<tabVars, subsetVars,
                   episodes, fact_episode, dim_show, kpi_df, shark_df,
                   dur_df, ran, vpc, runner, report, cli, status, sanity>>

\* shark_df.to_csv(shark_jump_results.csv)
WriteSharkCsv ==
    /\ pc = "write_shark"
    /\ out' = [out EXCEPT !.shark = Some(shark_df)]
    /\ pc' = "write_dur"
    /\ UNCHANGED <<tabVars, subsetVars,
                   episodes, fact_episode, dim_show, kpi_df, shark_df,
                   dur_df, ran, vpc, runner, report, cli, status, sanity>>

\* dur_df.to_csv(durability_index.csv), the summary and the end of main
WriteDurCsv ==
    /\ pc = "write_dur"
    /\ out' = [out EXCEPT !.dur = Some(dur_df)]
    /\ pc' = "done"
    /\ UNCHANGED <<tabVars, subsetVars,
                   episodes, fact_episode, dim_show, kpi_df, shark_df,
                   dur_df, ran, vpc, runner, report, cli, status, sanity>>

\* ------------------------------------------------------------------------
\* validate.py and build_shark_jump_sanity, run on what 02_run_sql.py left
\* ------------------------------------------------------------------------

\* the small episode tables on which validate.py is run in every way:
\* every show has episodes, all of season 1
IsNarrow(ep_df) ==
    /\ ShowSet(ep_df) = SHOW_IDS
    /\ \A i \in 1..Len(ep_df) : ep_df[i].season_num = 1

\* data_dir as the fixture generator leaves it beside episodes_filtered.csv
GeneratedDir(ep_df) ==
    Some([shows_df |-> ShowsMetadata, basics_df |-> BasicsOf(ep_df)])

\* the states of data_dir: a file missing, the generated files, a basics
\* file with one row more or one row less, a shows file with one row less
DataDirs(ep_df) ==
    {NULL,
     GeneratedDir(ep_df),
     Some([shows_df |-> ShowsMetadata,
           basics_df |-> Append(BasicsOf(ep_df), ExtraBasicsRow)]),
     Some([shows_df |-> ShowsMetadata, basics_df |-> Tail(BasicsOf(ep_df))]),
     Some([shows_df |-> Tail(ShowsMetadata), basics_df |-> BasicsOf(ep_df)])}

\* the runs of validate.py the model tries on an episode table: every flag
\* and every data_dir on the narrow tables, --all on generated files on the
\* others
ValidationCases(ep_df) ==
    IF IsNarrow(ep_df)
    THEN [is_sample : BOOLEAN, run_all : BOOLEAN, data_dir : DataDirs(ep_df)]
    ELSE [is_sample : BOOLEAN, run_all : {TRUE}, data_dir : {GeneratedDir(ep_df)}]

\* main of validate.py: validate, then sys.exit
Validate ==
    /\ pc \in {"done", "exit1"}
    /\ vpc = "idle"
    /\ \E c \in ValidationCases(episodes) :
          LET result == ValidateResult(episodes, c.data_dir, out,
                                       c.is_sample, c.run_all)
          IN  /\ runner' = result.runner
              /\ report' = result.lines
              /\ vpc' = result.ended
              /\ status' = Some(ExitStatus(result.runner.failures))
              /\ cli' = Some([is_sample |-> c.is_sample, run_all |-> c.run_all])
    /\ UNCHANGED <<tabVars, subsetVars,
                   episodes, pipelineVars, sanity>>

\* build_shark_jump_sanity on the exported files
BuildSharkJumpSanity ==
    /\ pc = "done"
    /\ sanity = NULL
    /\ sanity' = Some(SharkJumpSanity(ReadCsv(out.shark), ReadCsv(out.kpi)))
    /\ UNCHANGED <<tabVars, subsetVars,
                   episodes, pipelineVars, vpc, runner, report, cli, status>>

Next ==
    \/ \E inputs_exist \in BOOLEAN : VerifyInputs(inputs_exist)
    \/ \E ok \in BOOLEAN : RunSchema(ok)
    \/ \E ok \in BOOLEAN : RunSeasonKpis(ok)
    \/ \E ok \in BOOLEAN : RunSharkJump(ok)
    \/ \E ok \in BOOLEAN : RunDurability(ok)
    \/ WriteKpiCsv
    \/ WriteSharkCsv
    \/ WriteDurCsv
    \/ Validate
    \/ BuildSharkJumpSanity

Spec == Init /\ [][Next]_vars

\* ------------------------------------------------------------------------
\* 03_generate_qa_workbook.py main: the EpisodeCountPivot and
\* WeightedRatingCheck tabs
\* ------------------------------------------------------------------------

\* the variables 01_subset_imdb.py, validate.py and 02_run_sql.py work on
\* apart from the files the workbook loads
besideWorkbookVars ==
    <<subsetVars, pc, fact_episode, dim_show, kpi_df, shark_df, dur_df, ran,
      vpc, runner, report, cli, status, sanity>>

\* the files found by 03_generate_qa_workbook.py, left by earlier runs
WorkbookInit ==
    /\ episodes \in WorkbookEpisodes(0) \cup WorkbookEpisodes(2)
    /\ \E kpi \in WorkbookKpis : out = [NoFiles EXCEPT !.kpi = Some(kpi)]
    /\ pc = "verify"
    /\ fact_episode = <<>>
    /\ dim_show = <<>>
    /\ kpi_df = <<>>
    /\ shark_df = <<>>
    /\ dur_df = <<>>
    /\ ran = <<>>
    /\ vpc = "idle"
    /\ runner = NewRunner
    /\ report = <<>>
    /\ cli = NULL
    /\ status = NULL
    /\ sanity = NULL
    /\ pivot = NULL
    /\ wr_check = NULL
    /\ raw_dir = NULL
    /\ sample_dir = NULL
    /\ subset = NULL

\* main: build_episode_count_pivot on the loaded files
BuildEpisodeCountPivot ==
    /\ pivot = NULL
    /\ pivot' = Some(BuildEpisodeCountPivotResult(episodes, ReadCsv(out.kpi)))
    /\ UNCHANGED <<besideWorkbookVars, episodes, out, wr_check>>

\* main: build_weighted_rating_check, after the pivot
BuildWeightedRatingCheck ==
    /\ pivot # NULL
    /\ wr_check = NULL
    /\ wr_check' = Some(BuildWeightedRatingCheckResult(episodes, ReadCsv(out.kpi)))
    /\ UNCHANGED <<besideWorkbookVars, episodes, out, pivot>>

WorkbookNext ==
    \/ BuildEpisodeCountPivot
    \/ BuildWeightedRatingCheck

WorkbookSpec == WorkbookInit /\ [][WorkbookNext]_vars

\* ------------------------------------------------------------------------
\* 01_subset_imdb.py main
\* ------------------------------------------------------------------------

\* RAW_DIR holds raw files or none; SAMPLE_DIR holds the fixtures made of the
\* same rows
SubsetInit ==
    /\ raw_dir \in {Some(raw) : raw \in RawInputs} \cup {NULL}
    /\ sample_dir = (IF IsNa(raw_dir) THEN NULL
                     ELSE Some(SampleFixture(ReadCsv(raw_dir))))
    /\ subset = NULL
    /\ episodes = <<>>
    /\ out = NoFiles
    /\ pc = "verify"
    /\ fact_episode = <<>>
    /\ dim_show = <<>>
    /\ kpi_df = <<>>
    /\ shark_df = <<>>
    /\ dur_df = <<>>
    /\ ran = <<>>
    /\ vpc = "idle"
    /\ runner = NewRunner
    /\ report = <<>>
    /\ cli = NULL
    /\ status = NULL
    /\ sanity = NULL
    /\ pivot = NULL
    /\ wr_check = NULL

\* main without --sample
RunDefaultMode ==
    /\ subset = NULL
    /\ subset' = Some([sample |-> FALSE, run |-> RunDefaultModeResult(raw_dir)])
    /\ UNCHANGED <<raw_dir, sample_dir, tabVars, episodes, pipelineVars,
                   vpc, runner, report, cli, status, sanity>>

\* main with --sample
RunSampleMode ==
    /\ subset = NULL
    /\ subset' = Some([sample |-> TRUE, run |-> RunSampleModeResult(sample_dir)])
    /\ UNCHANGED <<raw_dir, sample_dir, tabVars, episodes, pipelineVars,
                   vpc, runner, report, cli, status, sanity>>

SubsetNext ==
    \/ RunDefaultMode
    \/ RunSampleMode

SubsetSpec == SubsetInit /\ [][SubsetNext]_vars

\* ------------------------------------------------------------------------
\* Properties of the shark-jump detector and of its checks
\* ------------------------------------------------------------------------

\* the shark-jump stage has run
SharkDone == pc \in {"durability", "export", "write_shark", "write_dur", "done"}

\* the durability stage has run
DurabilityDone == pc \in {"export", "write_shark", "write_dur", "done"}

\* Phase 2 of validate has read the exported files
Validated == vpc \in {"sample", "full"}

\* the KPI rows of a show
KpisOf(show) == ShowSlice(kpi_df, show)

\* the row of a show's season
KpiOf(show, season) == SeasonSlice(kpi_df, show, season)[1]

\* the seasons n of a show such that n and n+1 are seasons of the show and
\* both are below
QualifyingSeasons(show) ==
    {n \in SeasonNums(kpi_df, show) :
        /\ n + 1 \in SeasonNums(kpi_df, show)
        /\ Below(KpiOf(show, n))
        /\ Below(KpiOf(show, n + 1))}

\* the earlier season of the first qualifying pair, NULL without one
FirstOfPair(show) ==
    IF QualifyingSeasons(show) = {} THEN NULL
    ELSE Some(CHOOSE n \in QualifyingSeasons(show) :
                 \A m \in QualifyingSeasons(show) : n <= m)

\* v is NULL or the earlier season of a pair n, n+1 of below seasons
IsQualifying(show, v) == IsNa(v) \/ IntOf(v) \in QualifyingSeasons(show)

\* C1: for every show shark_jump_season is the earlier season of the first
\* pair of consecutive seasons that are both below, NULL iff there is no such
\* pair, and expected_sj of Check 19 is that same value.
C1_FirstOfPairAndReference ==
    SharkDone =>
        \A i \in 1..Len(shark_df) :
            /\ shark_df[i].shark_jump_season = FirstOfPair(shark_df[i].show_tconst)
            /\ ExpectedSj(kpi_df, shark_df[i].show_tconst)
                   = shark_df[i].shark_jump_season

\* C2: two below seasons whose numbers do not differ by exactly 1 never give
\* a shark-jump season, neither in the detector nor in expected_sj of Check 19:
\* each value is NULL or a season n such that n and n+1 are both below.
C2_NoPairAcrossGap ==
    SharkDone =>
        \A i \in 1..Len(shark_df) :
            /\ IsQualifying(shark_df[i].show_tconst, shark_df[i].shark_jump_season)
            /\ IsQualifying(shark_df[i].show_tconst,
                            ExpectedSj(kpi_df, shark_df[i].show_tconst))

\* C3: a shark_jump_season that is not NULL is at least 2, is not the first
\* season of its show, and is a season the show has.
C3_NeverFirstSeason ==
    SharkDone =>
        \A i \in 1..Len(shark_df) :
            LET sj == shark_df[i].shark_jump_season
                ks == KpisOf(shark_df[i].show_tconst)
            IN  ~IsNa(sj) =>
                    /\ IntOf(sj) >= 2
                    /\ IntOf(sj) # ks[1].season_num
                    /\ IntOf(sj) \in SeasonNums(kpi_df, shark_df[i].show_tconst)

\* the report lines of a name
LinesNamed(name) ==
    LET Named(l) == l.name = name
    IN  SelectSeq(report, Named)

\* C4: every emitted shark_jump_season is NULL or at least 3, so Check 17
\* fails no row and SharkJumpSanity flags none.
C4_OutputsPassSanityChecks ==
    /\ SharkDone =>
          \A i \in 1..Len(shark_df) :
              \/ IsNa(shark_df[i].shark_jump_season)
              \/ IntOf(shark_df[i].shark_jump_season) >= MinSharkJump
    /\ Validated =>
          \A i \in 1..Len(LinesNamed("shark_jump_season")) :
              LinesNamed("shark_jump_season")[i].passed
    /\ ~IsNa(sanity) => IntOf(sanity).n_fail = 0

\* ------------------------------------------------------------------------
\* Properties of the output grain and of the durability index
\* ------------------------------------------------------------------------

\* every report line of a name passed
AllPassed(name) ==
    \A i \in 1..Len(LinesNamed(name)) : LinesNamed(name)[i].passed

RowsAbove(show) ==
    {j \in 1..Len(KpisOf(show)) :
        KpisOf(show)[j].weighted_rating.num * KpisOf(show)[j].series_avg.den
            > KpisOf(show)[j].series_avg.num * KpisOf(show)[j].weighted_rating.den}

\* C6: durability_index of a show is the number of its seasons whose
\* weighted_rating is strictly greater than series_avg, is at least 0 and at
\* most the number of seasons; Check 18 accepts every row.
C6_DurabilityCountsStrictlyAbove ==
    /\ DurabilityDone =>
          \A i \in 1..Len(dur_df) :
              LET di == IntOf(dur_df[i].durability_index)
                  show == dur_df[i].show_tconst
              IN  /\ ~IsNa(dur_df[i].durability_index)
                  /\ di = Cardinality(RowsAbove(show))
                  /\ di >= 0
                  /\ di <= Len(KpisOf(show))
    /\ Validated =>
          /\ Len(LinesNamed("durability_index")) = Len(dur_df)
          /\ AllPassed("durability_index")

\* a validated show with a season that ties series_avg, a season that counts,
\* a season whose rolling average is above series_avg while its own rating is
\* not, and another show whose index is 0
C6_Witness ==
    /\ Validated
    /\ \E i, i0 \in 1..Len(dur_df) :
          LET ks == KpisOf(dur_df[i].show_tconst)
          IN  /\ IntOf(dur_df[i].durability_index) >= 1
              /\ IntOf(dur_df[i0].durability_index) = 0
              /\ \E j \in 1..Len(ks) : RatEq(ks[j].weighted_rating, ks[j].series_avg)
              /\ \E j \in 1..Len(ks) :
                    /\ RatGreater(ks[j].rolling_3_season_avg, ks[j].series_avg)
                    /\ ~RatGreater(ks[j].weighted_rating, ks[j].series_avg)

\* the row of a show in a one-row-per-show table
RowOf(df, show) == ShowSlice(df, show)[1]

\* C7: a show with exactly one season has shark_jump_season NULL and
\* durability_index 0, whatever the ratings and the positive vote total.
C7_SingleSeasonShow ==
    DurabilityDone =>
        \A show \in SHOW_IDS :
            Len(KpisOf(show)) = 1 =>
                /\ RowOf(shark_df, show).shark_jump_season = NULL
                /\ RowOf(dur_df, show).durability_index = Some(0)

\* a finished run with a one-season show of two differently rated episodes
C7_Witness ==
    /\ pc = "done"
    /\ \E show \in SHOW_IDS :
          /\ Len(KpisOf(show)) = 1
          /\ KpisOf(show)[1].episode_count >= 2
          /\ KpisOf(show)[1].season_total_votes > 0
          /\ \E i, j \in 1..Len(episodes) :
                /\ episodes[i].show_tconst = show
                /\ episodes[j].show_tconst = show
                /\ episodes[i].avg_rating # episodes[j].avg_rating

\* all seasons of a show have the same weighted_rating
AllTied(show) ==
    \A i, j \in 1..Len(KpisOf(show)) :
        RatEq(KpisOf(show)[i].weighted_rating, KpisOf(show)[j].weighted_rating)

\* C8: a show whose seasons all have the same weighted_rating has
\* durability_index 0 and season_rank_best k on its k-th season in ascending
\* season order.
C8_AllSeasonsTied ==
    DurabilityDone =>
        \A show \in SHOW_IDS :
            (Len(KpisOf(show)) >= 1 /\ AllTied(show)) =>
                /\ RowOf(dur_df, show).durability_index = Some(0)
                /\ \A k \in 1..Len(KpisOf(show)) :
                      /\ KpisOf(show)[k].season_rank_best = k
                      /\ \A j \in 1..Len(KpisOf(show)) :
                            j < k => KpisOf(show)[j].season_num
                                        < KpisOf(show)[k].season_num

\* a finished run with a show of three tied seasons of unequal vote totals
C8_Witness ==
    /\ pc = "done"
    /\ \E show \in SHOW_IDS :
          /\ Len(KpisOf(show)) >= 3
          /\ AllTied(show)
          /\ \E i, j \in 1..Len(KpisOf(show)) :
                KpisOf(show)[i].season_total_votes
                    # KpisOf(show)[j].season_total_votes

\* ------------------------------------------------------------------------
\* Properties of the trend calculator
\* ------------------------------------------------------------------------

\* the season KPI stage has run
KpisDone ==
    pc \in {"shark", "durability", "export", "write_shark", "write_dur", "done"}

\* the mean of the weighted ratings of rows i-2 .. i of ks, as far as they exist
TrailingMean(ks, i) ==
    IF i = 1 THEN ks[1].weighted_rating
    ELSE IF i = 2
         THEN RatDiv(RatAdd(ks[1].weighted_rating, ks[2].weighted_rating), 2)
         ELSE RatDiv(RatAdd(RatAdd(ks[i - 2].weighted_rating,
                                   ks[i - 1].weighted_rating),
                            ks[i].weighted_rating), 3)

\* C9: rolling_3_season_avg is the unweighted mean of weighted_rating over the
\* row itself and up to two rows before it among the rows of the same show in
\* ascending season order: 1 term on the first row, 2 on the second, 3 from
\* the third on, whatever the season numbers are.
C9_RollingWindowByPosition ==
    KpisDone =>
        \A show \in SHOW_IDS :
            \A i \in 1..Len(KpisOf(show)) :
                /\ KpisOf(show)[i].show_tconst = show
                /\ i > 1 => KpisOf(show)[i - 1].season_num
                               < KpisOf(show)[i].season_num
                /\ RatEq(KpisOf(show)[i].rolling_3_season_avg,
                         TrailingMean(KpisOf(show), i))

\* KPI rows of a show of at least three unequally rated seasons whose numbers
\* have a gap, followed in the table by the rows of another show
C9_Witness ==
    /\ KpisDone
    /\ \E a, b \in SHOW_IDS :
          LET ks == KpisOf(a)
          IN  /\ a # b
              /\ Len(ks) >= 3
              /\ ks[3].season_num > ks[1].season_num + 2
              /\ ~RatEq(ks[1].weighted_rating, ks[2].weighted_rating)
              /\ ~RatEq(ks[2].weighted_rating, ks[3].weighted_rating)
              /\ Len(KpisOf(b)) >= 1
              /\ ~RatEq(KpisOf(b)[1].weighted_rating, ks[Len(ks)].weighted_rating)

\* positions of the episodes of a show in the input
EpisodesOf(show) == {i \in 1..Len(episodes) : episodes[i].show_tconst = show}

\* sum of rating * votes over the input rows at the positions S
RECURSIVE TotalRatingVotes(_)
TotalRatingVotes(S) ==
    IF S = {} THEN 0
    ELSE LET i == CHOOSE x \in S : TRUE
         IN  episodes[i].avg_rating * episodes[i].num_votes
                 + TotalRatingVotes(S \ {i})

\* sum of votes over the input rows at the positions S
RECURSIVE TotalVotes(_)
TotalVotes(S) ==
    IF S = {} THEN 0
    ELSE LET i == CHOOSE x \in S : TRUE
         IN  episodes[i].num_votes + TotalVotes(S \ {i})

\* sum over the rows ks of weighted_rating * season_total_votes
RECURSIVE VoteWeightedSum(_)
VoteWeightedSum(ks) ==
    IF ks = <<>> THEN Rat(0, 1)
    ELSE RatAdd(Rat(Head(ks).weighted_rating.num * Head(ks).season_total_votes,
                    Head(ks).weighted_rating.den),
                VoteWeightedSum(Tail(ks)))

\* sum over the rows ks of season_total_votes
RECURSIVE SeasonVotesSum(_)
SeasonVotesSum(ks) ==
    IF ks = <<>> THEN 0
    ELSE Head(ks).season_total_votes + SeasonVotesSum(Tail(ks))

\* the simple mean of the weighted ratings of the rows ks
SimpleMean(ks) == RatDiv(RatSum(WeightedRatings(ks), 1, Len(ks)), Len(ks))

\* C10: series_avg of a show is the sum of rating * votes over all its
\* episodes divided by the sum of their votes, which is the mean of its
\* seasons' weighted_rating weighted by season_total_votes, and is the same on
\* every KPI row of the show.
C10_SeriesAvgIsVoteWeighted ==
    KpisDone =>
        \A show \in SHOW_IDS :
            \A i \in 1..Len(KpisOf(show)) :
                LET ks == KpisOf(show)
                IN  /\ RatEq(ks[i].series_avg,
                             Rat(TotalRatingVotes(EpisodesOf(show)),
                                 TotalVotes(EpisodesOf(show))))
                    /\ RatEq(ks[i].series_avg,
                             RatDiv(VoteWeightedSum(ks), SeasonVotesSum(ks)))
                    /\ ks[i].series_avg = ks[1].series_avg

\* KPI rows of a show whose series_avg is not the simple mean of its seasons'
\* weighted ratings, with a season above the one and not above the other
C10_Witness ==
    /\ KpisDone
    /\ \E show \in SHOW_IDS :
          LET ks == KpisOf(show)
          IN  /\ Len(ks) >= 2
              /\ ~RatEq(ks[1].series_avg, SimpleMean(ks))
              /\ \E j \in 1..Len(ks) :
                    /\ RatGreater(ks[j].weighted_rating, SimpleMean(ks))
                    /\ ~RatGreater(ks[j].weighted_rating, ks[j].series_avg)
              /\ \E j \in 1..Len(ks) : ks[j].episode_count >= 2

\* ------------------------------------------------------------------------
\* Properties of the season aggregator
\* ------------------------------------------------------------------------

\* the season_rank_best values of a show
RanksOf(show) ==
    {KpisOf(show)[i].season_rank_best : i \in 1..Len(KpisOf(show))}

\* C11: within each show the season_rank_best values of its n seasons are
\* exactly 1..n, each once; a season of higher weighted_rating has the lower
\* rank, and of two seasons of equal weighted_rating the one of lower
\* season_num has the lower rank.
C11_RanksArePermutation ==
    KpisDone =>
        \A show \in SHOW_IDS :
            LET ks == KpisOf(show)
            IN  /\ RanksOf(show) = 1..Len(ks)
                /\ \A i, j \in 1..Len(ks) :
                      /\ ks[i].season_rank_best = ks[j].season_rank_best => i = j
                      /\ RatGreater(ks[i].weighted_rating, ks[j].weighted_rating)
                            => ks[i].season_rank_best < ks[j].season_rank_best
                      /\ (RatEq(ks[i].weighted_rating, ks[j].weighted_rating)
                              /\ ks[i].season_num < ks[j].season_num)
                            => ks[i].season_rank_best < ks[j].season_rank_best

\* KPI rows of a show with two tied seasons that outrank an earlier season,
\* and a fourth season rated apart from them
C11_Witness ==
    /\ KpisDone
    /\ \E show \in SHOW_IDS :
          LET ks == KpisOf(show)
          IN  /\ Len(ks) >= 3
              /\ \E i, j, k \in 1..Len(ks) :
                    /\ i < j /\ j < k
                    /\ RatEq(ks[j].weighted_rating, ks[k].weighted_rating)
                    /\ RatLess(ks[i].weighted_rating, ks[j].weighted_rating)
                    /\ ks[j].season_rank_best = 1
                    /\ ks[k].season_rank_best = 2

\* the ratings of the input episodes of a show's season
RatingsOf(show, season) ==
    {episodes[i].avg_rating :
        i \in {j \in EpisodesOf(show) : episodes[j].season_num = season}}

\* lo <= q <= hi for a fraction q and integers lo, hi
RatWithin(q, lo, hi) == lo * q.den <= q.num /\ q.num <= hi * q.den

\* C12: every KPI row with season_total_votes > 0, built from episodes rated
\* within [1.0, 10.0] with votes >= 0, has a weighted_rating within
\* [1.0, 10.0] that lies between the lowest and the highest episode rating of
\* its season; Check 16 accepts a KPI table that has rows.
C12_WeightedRatingWithinRatings ==
    /\ KpisDone =>
          \A i \in 1..Len(kpi_df) :
              kpi_df[i].season_total_votes > 0 =>
                  /\ RatWithin(kpi_df[i].weighted_rating,
                               MinRating * RatingScale, MaxRating * RatingScale)
                  /\ \E lo, hi \in RatingsOf(kpi_df[i].show_tconst, kpi_df[i].season_num) :
                        /\ \A r \in RatingsOf(kpi_df[i].show_tconst,
                                               kpi_df[i].season_num) :
                              lo <= r /\ r <= hi
                        /\ RatWithin(kpi_df[i].weighted_rating, lo, hi)
    /\ (Validated /\ Len(kpi_df) > 0) => AllPassed("weighted_rating range")

\* a validated run with a season of differently rated episodes with votes,
\* whose weighted_rating is strictly between two of the ratings
C12_Witness ==
    /\ Validated
    /\ \E i \in 1..Len(kpi_df) :
          /\ kpi_df[i].season_total_votes > 0
          /\ \E lo, hi \in RatingsOf(kpi_df[i].show_tconst, kpi_df[i].season_num) :
                /\ lo * kpi_df[i].weighted_rating.den < kpi_df[i].weighted_rating.num
                /\ kpi_df[i].weighted_rating.num < hi * kpi_df[i].weighted_rating.den

\* positions of the input episodes of a (show, season) pair
EpisodesOfSeason(show, season) ==
    {j \in EpisodesOf(show) : episodes[j].season_num = season}

\* C13: agg_season_kpis has exactly one row for every (show, season) pair
\* with at least one input episode and no row for any other pair, so the pair
\* is a unique key; every row has season_num > 0 and episode_count > 0, and
\* episode_count is the number of input episodes of the pair. Check 13
\* accepts the table, and Check 15 does when the table has rows.
C13_OneRowPerSeasonWithEpisodes ==
    /\ KpisDone =>
          /\ \A show \in SHOW_IDS :
                \A season \in SeasonNums(episodes, show) :
                    Len(SeasonSlice(kpi_df, show, season)) = 1
          /\ \A i \in 1..Len(kpi_df) :
                /\ kpi_df[i].show_tconst \in SHOW_IDS
                /\ kpi_df[i].season_num
                       \in SeasonNums(episodes, kpi_df[i].show_tconst)
                /\ kpi_df[i].season_num > 0
                /\ kpi_df[i].episode_count > 0
                /\ kpi_df[i].episode_count
                       = Cardinality(EpisodesOfSeason(kpi_df[i].show_tconst,
                                                      kpi_df[i].season_num))
                /\ \A j \in 1..Len(kpi_df) :
                      (kpi_df[j].show_tconst = kpi_df[i].show_tconst
                          /\ kpi_df[j].season_num = kpi_df[i].season_num) => i = j
    /\ Validated => AllPassed("kpi unique")
    /\ (Validated /\ Len(kpi_df) > 0) =>
          /\ AllPassed("season_num > 0")
          /\ AllPassed("episode_count > 0")

\* a validated run in which two shows have a season 1, one of them of
\* several episodes, and that show lacks a season below its last one
C13_Witness ==
    /\ Validated
    /\ \E a, b \in SHOW_IDS :
          /\ a # b
          /\ Len(KpisOf(a)) >= 2
          /\ KpisOf(a)[1].season_num = 1
          /\ KpisOf(a)[1].episode_count >= 2
          /\ KpisOf(a)[2].season_num > 2
          /\ Len(KpisOf(b)) >= 1
          /\ KpisOf(b)[1].season_num = 1

\* ------------------------------------------------------------------------
\* Independence of the row order of the input
\* ------------------------------------------------------------------------

\* the rows of a table from the last to the first
Reversed(tbl) == [i \in 1..Len(tbl) |-> tbl[Len(tbl) + 1 - i]]

\* the rows of a table with the first row moved to the end
Rotated(tbl) == IF tbl = <<>> THEN <<>> ELSE Append(Tail(tbl), Head(tbl))

\* other orders of the rows of fact_episode
Reordered == {Reversed(fact_episode), Rotated(fact_episode),
              Rotated(Reversed(fact_episode))}

AsDesigned(show) ==
    /\ Len(KpisOf(show)) = Len(SHOW_SEASONS[show])
    /\ \A s \in 1..Len(SHOW_SEASONS[show]) :
          /\ KpisOf(show)[s].season_num = s
          /\ KpisOf(show)[s].weighted_rating = Rat(SHOW_SEASONS[show][s][2], 1)
          /\ KpisOf(show)[s].season_total_votes
                 = SHOW_SEASONS[show][s][1] * SHOW_SEASONS[show][s][3]

\* the shark-jump stage has run on the fixture
FixtureSharkDone == SharkDone /\ episodes = FixtureEpisodes

\* C15: for The Simpsons of the fixture (weighted ratings 8.5, 8.3, 8.0, 7.7,
\* 7.3, 7.0, 6.7, 6.4 with vote totals n_episodes * base_votes) the detector
\* yields a shark_jump_season that is not NULL, is not season 1, and is
\* season 6.
C15_SimpsonsSharkJumpAtSix ==
    (FixtureSharkDone /\ AsDesigned("tt0096697")) =>
        /\ ~IsNa(RowOf(shark_df, "tt0096697").shark_jump_season)
        /\ RowOf(shark_df, "tt0096697").shark_jump_season # Some(1)
        /\ RowOf(shark_df, "tt0096697").shark_jump_season = Some(6)

\* C16: for Family Guy of the fixture (weighted ratings 8.2, 8.5, 7.8, 9.2,
\* 8.3, 8.0, 7.8 with vote totals n_episodes * base_votes) no two consecutive
\* seasons are both below and shark_jump_season is NULL.
C16_FamilyGuyNeverTriggers ==
    (FixtureSharkDone /\ AsDesigned("tt0182576")) =>
        /\ \A s \in 1..(Len(KpisOf("tt0182576")) - 1) :
              ~(Below(KpisOf("tt0182576")[s]) /\ Below(KpisOf("tt0182576")[s + 1]))
        /\ RowOf(shark_df, "tt0182576").shark_jump_season = NULL

\* C17: for SpongeBob (season ratings 8.5, 8.7, 8.8, 6.5, 6.2, 6.0) and The
\* Walking Dead (8.8, 8.5, 8.2, 7.5, 6.5, 6.0) of the fixture, with vote
\* totals n_episodes * base_votes, shark_jump_season is 5 for both shows.
C17_SharkJumpAtFiveTwice ==
    (FixtureSharkDone /\ AsDesigned("tt0206512") /\ AsDesigned("tt1520211")) =>
        /\ RowOf(shark_df, "tt0206512").shark_jump_season = Some(5)
        /\ RowOf(shark_df, "tt1520211").shark_jump_season = Some(5)

\* ------------------------------------------------------------------------
\* Completion of 02_run_sql.py
\* ------------------------------------------------------------------------

\* main has ended: by its last statement, by sys.exit(1) or by an exception
Terminated == pc \in {"done", "exit1", "raised"}

\* the CSV files that exist
Written == {f \in DOMAIN out : ~IsNa(out[f])}

Exited == ~IsNa(status)

\* the report lines made by runner.check that failed
FailedChecks == {i \in 1..Len(report) : ~report[i].passed /\ ~report[i].warn}

\* the report lines made by runner.warn that were not ok
Warnings == {i \in 1..Len(report) : ~report[i].passed /\ report[i].warn}

\* a phase stopped at a file it did not find
FileNotFound == vpc \in {"nofiles", "missing"}

\* C19: the value validate returns, runner.failures, is the number of failed
\* checks, a missing input file counting as one; the exit status is 1 when
\* it is greater than 0 and 0 otherwise, so any failed check or missing file
\* makes it 1; warnings (Check 9) are counted apart and change neither.
C19_ExitStatusCountsFailuresOnly ==
    Exited =>
        /\ runner.failures
               = Cardinality(FailedChecks) + (IF FileNotFound THEN 1 ELSE 0)
        /\ runner.warnings = Cardinality(Warnings)
        /\ status \in {Some(0), Some(1)}
        /\ status = Some(1) <=> runner.failures > 0
        /\ status = Some(1) <=> (FailedChecks # {} \/ FileNotFound)

\* a run of both phases that exits 0 although Check 9 gave a warning
C19_Witness ==
    /\ Exited
    /\ Validated
    /\ status = Some(0)
    /\ runner.warnings > 0
    /\ \E i \in Warnings : report[i].name = "row counts equal"

\* Phase 2 of validate was entered
Phase2Ran == vpc \in {"missing", "sample", "full"}

\* Phase 1 of validate made its checks
Phase1Checked == Len(LinesNamed("episodes_filtered columns")) = 1

\* the report lines of Phase 2 follow those of Phase 1
Phase2AfterPhase1 ==
    \A i, j \in 1..Len(report) :
        (report[i].name = "kpi columns" /\ report[j].name = "shows_metadata shows")
            => j < i

\* C20: Phase 1 always runs; Phase 2 runs if --all is given or the Phase 2
\* outputs exist, always after Phase 1, and is skipped when a Phase 1 input
\* file is missing, in which case Phase 1 records exactly one failure and
\* makes no check.
C20_Phase2WhenAllOrOutputsExist ==
    Exited =>
        /\ vpc # "nofiles" => Phase1Checked
        /\ vpc # "nofiles" =>
              (Phase2Ran <=> (IntOf(cli).run_all \/ Written = DOMAIN out))
        /\ Phase2AfterPhase1
        /\ vpc = "nofiles" =>
              /\ ~Phase2Ran
              /\ runner = [total |-> 0, failures |-> 1, warnings |-> 0]
              /\ report = <<>>

\* ------------------------------------------------------------------------
\* Coverage of the off-by-one verification
\* ------------------------------------------------------------------------

\* validate.py ran both phases with --sample
SampleValidated == Validated /\ IntOf(cli).is_sample

\* the shark_jump_season reported for a show in the file validation read
ReportedSj(show) == RowOf(ReadCsv(out.shark), show).shark_jump_season

\* C21: when Check 19 records no off-by-one failure, the reported
\* shark_jump_season of every show, a show reported as NULL included, is the
\* first-of-pair value Check 19 computes from the KPI table.
C21_OffByOneCoversEveryShow ==
    (SampleValidated /\ AllPassed("off-by-one")) =>
        \A show \in SHOW_IDS :
            ReportedSj(show) = ExpectedSj(ReadCsv(out.kpi), show)

\* ------------------------------------------------------------------------
\* The counters of CheckRunner
\* ------------------------------------------------------------------------

\* the passed count of the validation summary
PassedCount == runner.total - runner.failures - runner.warnings

\* C22: after any run of validate, missing-file paths included, failures +
\* warnings <= total, so the passed count is never negative; every check or
\* warn call adds 1 to total, check adds to failures only (iff not passed)
\* and warn to warnings only (iff not ok).
C22_FailuresAndWarningsWithinTotal ==
    Exited =>
        /\ runner.failures + runner.warnings <= runner.total
        /\ PassedCount >= 0
        /\ runner.total = Len(report)
        /\ runner.failures = Cardinality(FailedChecks)
        /\ runner.warnings = Cardinality(Warnings)

\* ------------------------------------------------------------------------
\* Upper bound of the durability index
\* ------------------------------------------------------------------------

\* every season of the show has a positive vote total
AllSeasonsVoted(show) ==
    \A j \in 1..Len(KpisOf(show)) : KpisOf(show)[j].season_total_votes > 0

\* C28: a show with at least one season and positive vote totals in all its
\* seasons has a durability_index strictly below its number of seasons,
\* because one of its seasons has weighted_rating <= series_avg.
C28_DurabilityBelowSeasonCount ==
    DurabilityDone =>
        \A show \in SHOW_IDS :
            (Len(KpisOf(show)) >= 1 /\ AllSeasonsVoted(show)) =>
                /\ IntOf(RowOf(dur_df, show).durability_index) < Len(KpisOf(show))
                /\ \E j \in 1..Len(KpisOf(show)) :
                      ~RatGreater(KpisOf(show)[j].weighted_rating,
                                  KpisOf(show)[j].series_avg)

\* a show of three or more seasons where all but one are above its average,
\* next to a show whose only season equals its average
C28_Witness ==
    /\ DurabilityDone
    /\ \E show, other \in SHOW_IDS :
          /\ Len(KpisOf(show)) >= 3
          /\ AllSeasonsVoted(show)
          /\ IntOf(RowOf(dur_df, show).durability_index) = Len(KpisOf(show)) - 1
          /\ Len(KpisOf(other)) = 1
          /\ RatEq(KpisOf(other)[1].weighted_rating, KpisOf(other)[1].series_avg)
          /\ RowOf(dur_df, other).durability_index = Some(0)

\* ------------------------------------------------------------------------
\* The outputs of 01_subset_imdb.py
\* ------------------------------------------------------------------------

\* 01_subset_imdb.py has run and written its files
SubsetWritten == ~IsNa(subset) /\ ~IsNa(IntOf(subset).run.files)

\* the files it wrote
SubsetFiles == ReadCsv(IntOf(subset).run.files)

\* C23: every row written to episodes_filtered.csv, in either mode and for
\* any raw input, meets the clean-episode contract: one row per
\* episode_tconst, season_num >= 1, avg_rating within [1, 10], num_votes >= 0
\* and a titleType of tvEpisode in basics (episode_num is never NULL in a
\* written row).
C23_WrittenEpisodesAreClean ==
    SubsetWritten =>
        LET ep_df == SubsetFiles.episodes_filtered
            basics == IF IntOf(subset).sample
                      THEN ReadCsv(sample_dir).basics_df
                      ELSE [i \in 1..Len(ReadCsv(raw_dir).basics) |->
                               RenameBasics(ReadCsv(raw_dir).basics[i])]
        IN  /\ NoDuplicates(Column(ep_df, "episode_tconst"))
            /\ \A i \in 1..Len(ep_df) :
                  /\ ep_df[i].season_num >= 1
                  /\ ep_df[i].avg_rating >= MinRating * RatingScale
                  /\ ep_df[i].avg_rating <= MaxRating * RatingScale
                  /\ ep_df[i].num_votes >= 0
                  /\ \E j \in 1..Len(basics) :
                        /\ basics[j].episode_tconst = ep_df[i].episode_tconst
                        /\ basics[j].title_type = "tvEpisode"

\* the episode_tconst values a run kept, none when it wrote no file
KeptEpisodes(run) ==
    IF IsNa(run.files) THEN {}
    ELSE ValueSet(Column(ReadCsv(run.files).episodes_filtered, "episode_tconst"))

\* C24: given the same episode rows joined with ratings and the same basics
\* rows, run_sample_mode and run_default_mode keep the same set of episodes,
\* also when basics lacks an episode_tconst, has it with another titleType
\* or has it twice with differing titleType values.
C24_ModesKeepSameEpisodes ==
    (~IsNa(subset) /\ ~IsNa(raw_dir)) =>
        KeptEpisodes(RunDefaultModeResult(raw_dir))
            = KeptEpisodes(RunSampleModeResult(sample_dir))

\* the report lines Phase 1 of validate.py, run without --sample, makes on
\* the written files
SubsetPhase1Lines ==
    Phase1Lines(SubsetFiles.episodes_filtered, SubsetFiles.shows_metadata,
                SubsetFiles.episodes_basics, FALSE)

\* the names of the report lines of Checks 6, 7 and 8
BasicsChecks == {"title_type", "unique episode_tconst in basics", "key alignment"}

\* C25: in both modes the written episodes_basics.csv has only tvEpisode
\* rows and no duplicate episode_tconst, and its episode_tconst set contains
\* that of the written episodes_filtered.csv, so Checks 6, 7 and 8 of Phase 1
\* pass on the outputs.
C25_WrittenBasicsPassChecks ==
    SubsetWritten =>
        LET basics_df == SubsetFiles.episodes_basics
            ep_df == SubsetFiles.episodes_filtered
        IN  /\ \A i \in 1..Len(basics_df) : basics_df[i].title_type = "tvEpisode"
            /\ NoDuplicates(Column(basics_df, "episode_tconst"))
            /\ ValueSet(Column(ep_df, "episode_tconst"))
                   \subseteq ValueSet(Column(basics_df, "episode_tconst"))
            /\ \A i \in 1..Len(SubsetPhase1Lines) :
                  SubsetPhase1Lines[i].name \in BasicsChecks
                      => SubsetPhase1Lines[i].passed

\* ------------------------------------------------------------------------
\* The tabs of the QA workbook
\* ------------------------------------------------------------------------

\* the (show, season) pairs of a table
PairsOf(tbl) == {<<tbl[i].show_tconst, tbl[i].season_num>> : i \in 1..Len(tbl)}

\* the pair a row of the pivot is about
PairOfRow(r) == <<r.show_tconst, r.season_num>>

\* number of rows of a table for a pair
CountOf(tbl, pair) == Len(SeasonSlice(tbl, pair[1], pair[2]))

\* the pair is in both tables and the episodes counted equal episode_count
CountsAgree(pair) ==
    /\ pair \in PairsOf(episodes) \cap PairsOf(ReadCsv(out.kpi))
    /\ \A k \in 1..Len(ReadCsv(out.kpi)) :
          PairOfRow(ReadCsv(out.kpi)[k]) = pair
              => ReadCsv(out.kpi)[k].episode_count = CountOf(episodes, pair)

\* C26: build_episode_count_pivot returns one row for each (show, season) of
\* the episode table or the KPI table; match is true iff the pair is in both
\* and the episodes counted equal the KPI episode_count, so a pair on one
\* side only never matches; n_pass + n_fail is the number of rows.
C26_PivotMatchesIffCountsAgree ==
    ~IsNa(pivot) =>
        LET rows == IntOf(pivot).rows
            both == PairsOf(episodes) \cap PairsOf(ReadCsv(out.kpi))
        IN  /\ {PairOfRow(rows[i]) : i \in 1..Len(rows)}
                   = PairsOf(episodes) \cup PairsOf(ReadCsv(out.kpi))
            /\ \A i, j \in 1..Len(rows) :
                  PairOfRow(rows[i]) = PairOfRow(rows[j]) => i = j
            /\ \A i \in 1..Len(rows) :
                  /\ rows[i].match <=> CountsAgree(PairOfRow(rows[i]))
                  /\ PairOfRow(rows[i]) \notin both => ~rows[i].match
            /\ IntOf(pivot).n_pass
                   = Cardinality({i \in 1..Len(rows) : rows[i].match})
            /\ IntOf(pivot).n_pass + IntOf(pivot).n_fail = Len(rows)

\* a pivot with a matching row, a row whose counts differ, a row of
\* episodes without KPI row and a KPI row without episodes
C26_Witness ==
    /\ ~IsNa(pivot)
    /\ \E a, b, c, d \in 1..Len(IntOf(pivot).rows) :
          LET rows == IntOf(pivot).rows
          IN  /\ rows[a].match
              /\ ~rows[b].match
              /\ ~IsNa(rows[b].ep_count_from_episodes)
              /\ ~IsNa(rows[b].ep_count_from_kpis)
              /\ IsNa(rows[c].ep_count_from_kpis)
              /\ PairOfRow(rows[c]) \in PairsOf(episodes)
              /\ IsNa(rows[d].ep_count_from_episodes)
              /\ rows[d].ep_count_from_kpis = Some(1)
              /\ ~rows[c].match /\ ~rows[d].match

\* the seasons of a show the spot check prefers: those other than season 1
\* when there are any, by the KPI table
PreferredSeasons(show) ==
    LET nums == SeasonNums(ReadCsv(out.kpi), show)
    IN  IF nums \ {1} # {} THEN nums \ {1} ELSE nums

\* episode_count of the KPI row of a show and season
KpiEpisodeCount(show, season) ==
    SeasonSlice(ReadCsv(out.kpi), show, season)[1].episode_count

\* the season is the one with the most episodes among the preferred ones,
\* the lowest of those that tie
IsSpotCheckSeason(show, season) ==
    /\ season \in PreferredSeasons(show)
    /\ \A other \in PreferredSeasons(show) :
          \/ KpiEpisodeCount(show, season) > KpiEpisodeCount(show, other)
          \/ /\ KpiEpisodeCount(show, season) = KpiEpisodeCount(show, other)
             /\ season <= other

\* the SUMMARY rows of the WeightedRatingCheck tab
SummaryRows ==
    LET Summary(r) == r.is_summary
    IN  SelectSeq(IntOf(wr_check).rows, Summary)

\* C27: build_weighted_rating_check never raises, whatever the episode table
\* and the KPI table; it gives one SUMMARY row for each show of the episode
\* table with n_pass + n_fail the number of those shows, spot-checks the
\* season with the most episodes among the seasons other than season 1 when
\* there are such (ties to the lowest season_num), and counts a show whose
\* chosen season has no votes as failed with the note "sum_votes=0".
C27_SpotCheckNeverRaises ==
    ~IsNa(wr_check) =>
        /\ ~IntOf(wr_check).raised
        /\ {SummaryRows[i].show_tconst : i \in 1..Len(SummaryRows)}
               = ShowSet(episodes)
        /\ Len(SummaryRows) = Cardinality(ShowSet(episodes))
        /\ IntOf(wr_check).n_pass + IntOf(wr_check).n_fail
               = Cardinality(ShowSet(episodes))
        /\ \A i \in 1..Len(SummaryRows) :
              /\ IsSpotCheckSeason(SummaryRows[i].show_tconst,
                                   SummaryRows[i].season_num)
              /\ SummaryRows[i].sum_votes = 0 =>
                    (~SummaryRows[i].pass /\ SummaryRows[i].note = "sum_votes=0")

====
